---- MODULE Spec2Model ----
(***************************************************************************)
(* The icescript virtual machine (package vm) driven by host threads that  *)
(* call Run and Invoke on one shared VM.                                   *)
(*                                                                         *)
(* Go arrays are zero based; a Go slice a with written prefix of length n  *)
(* is kept as the TLA+ sequence of that prefix (a[i] is seq[i+1]) and      *)
(* every slot above the prefix holds Go nil, which the array had from      *)
(* make().                                                                 *)
(***************************************************************************)
EXTENDS Integers, Sequences, FiniteSets, TLC

StackSize == 2048
GlobalSize == 65536
MaxFrames == 1024
\* the literal of `if opsCount >= 1024` in VM.run
CheckInterval == 1024

\* Bounds of the host: threads sharing the VM and calls made on it.
NumThreads == 2
MaxCalls == 4

Threads == 1..NumThreads
NoThread == 0


(***************************************************************************)
(* Opcodes (package opcode).                                               *)
(***************************************************************************)
OpConstant == 0
OpAdd == 1
OpPop == 2
OpSub == 3
OpMul == 4
OpDiv == 5
OpTrue == 6
OpFalse == 7
OpEqual == 8
OpNotEqual == 9
OpGreaterThan == 10
OpMinus == 11
OpBang == 12
OpJumpNotTruthy == 13
OpJump == 14
OpNull == 15
OpGetGlobal == 16
OpSetGlobal == 17
OpArray == 18
OpHash == 19
OpIndex == 20
OpCall == 21
OpReturnValue == 22
OpReturn == 23
OpGetLocal == 24
OpSetLocal == 25
OpGetBuiltin == 26
OpClosure == 27
OpGetFree == 28
OpCurrentClosure == 29
\* opcodes the VM and the compiler use whose numbering is not in opcode.go
OpMod == 30
OpDup == 31
OpSlice == 32
OpDestructure == 33

\* Definition.OperandWidths
OperandWidths(op) ==
  CASE op \in {OpConstant, OpJumpNotTruthy, OpJump, OpGetGlobal, OpSetGlobal,
               OpArray, OpHash} -> <<2>>
    [] op \in {OpCall, OpGetLocal, OpSetLocal, OpGetBuiltin, OpGetFree,
               OpDestructure} -> <<1>>
    [] op = OpClosure -> <<2, 1>>
    [] OTHER -> <<>>

\* the bytes of one operand of the given width, big endian, truncated as
\* byte(o >> 8), byte(o)
OperandBytes(width, o) ==
  IF width = 2 THEN <<(o \div 256) % 256, o % 256>> ELSE <<o % 256>>

\* opcode.Make
Make(op, operands) ==
  LET w == OperandWidths(op)
  IN  IF Len(w) = 0 THEN <<op>>
      ELSE IF Len(w) = 1 THEN <<op>> \o OperandBytes(w[1], operands[1])
      ELSE <<op>> \o OperandBytes(w[1], operands[1])
                  \o OperandBytes(w[2], operands[2])

\* opcode.ReadUint16 / ReadUint8 on ins[pos:], pos a Go offset
ReadUint16(ins, pos) == ins[pos + 1] * 256 + ins[pos + 2]
ReadUint8(ins, pos) == ins[pos + 1]

(***************************************************************************)
(* Objects (package object).  Every object is a record of the same shape:  *)
(* t the ObjectType ("nil" for a nil interface), v the integer payload     *)
(* (Integer.Value, Boolean.Value as 0/1, the function index of a closure,  *)
(* the index of a builtin), s the string payload, elems the captured free  *)
(* values of a closure, inst the identity of the instance (0 for the       *)
(* shared True/False/NullObj and for objects whose identity is never       *)
(* compared).                                                              *)
(***************************************************************************)
Obj(t, v, s, elems, inst) ==
  [t |-> t, v |-> v, s |-> s, elems |-> elems, inst |-> inst]
Nil == Obj("nil", 0, "", <<>>, 0)
Integer(n) == Obj("INTEGER", n, "", <<>>, 0)
Str(s) == Obj("STRING", 0, s, <<>>, 0)
True == Obj("BOOLEAN", 1, "", <<>>, 0)
False == Obj("BOOLEAN", 0, "", <<>>, 0)
Null == Obj("NULL", 0, "", <<>>, 0)
FnConst(k) == Obj("COMPILED_FUNCTION", k, "", <<>>, 0)
Closure(k, free) == Obj("CLOSURE", k, "", free, 0)
Builtin(i) == Obj("BUILTIN", i, "", <<>>, 0)
\* &object.Builtin{Fn: ...} made by the host, which puts it in a global with
\* SetGlobal: its Fn calls the accessor called name on the VM the host holds
\* (machine.GetGlobal, machine.SetGlobal) and returns null
HostBuiltin(name) == Obj("BUILTIN", -1, name, <<>>, 0)
\* sentinels a builtin may return
Panic(msg) == Obj("PANIC", 0, msg, <<>>, 0)
Critical(msg) == Obj("CRITICAL", 0, msg, <<>>, 0)

\* object.Builtins: the index of each builtin in the table
BuiltinLen == 0
BuiltinPrint == 1
BuiltinPanic == 2
BuiltinTestMultiReturn == 16

(***************************************************************************)
(* Compiler output.  A compilation scope is the list of the emit() calls   *)
(* made in it, each <<opcode, operands, lastLine>>.                        *)
(***************************************************************************)
RECURSIVE Assemble(_)
\* Compiler.emit / addInstruction: the instruction bytes of a scope
Assemble(emits) ==
  IF emits = <<>> THEN <<>>
  ELSE IF Len(emits) = 1 THEN Make(emits[1][1], emits[1][2])
  ELSE LET h == Len(emits) \div 2
       IN  Assemble(SubSeq(emits, 1, h))
           \o Assemble(SubSeq(emits, h + 1, Len(emits)))

RECURSIVE SourceMapOf(_)
\* Compiler.emit: sourceMap[pos] = lastLine when lastLine > 0; the map is
\* kept as a sequence over the byte positions with 0 for "no entry"
SourceMapOf(emits) ==
  IF emits = <<>> THEN <<>>
  ELSE IF Len(emits) = 1
    THEN LET b == Make(emits[1][1], emits[1][2])
         IN  <<(IF emits[1][3] > 0 THEN emits[1][3] ELSE 0)>>
             \o [i \in 1..(Len(b) - 1) |-> 0]
  ELSE LET h == Len(emits) \div 2
       IN  SourceMapOf(SubSeq(emits, 1, h))
           \o SourceMapOf(SubSeq(emits, h + 1, Len(emits)))

\* object.CompiledFunction
CompiledFunction(name, emits, numLocals, numParams) ==
  [Name |-> name, Instructions |-> Assemble(emits),
   SourceMap |-> SourceMapOf(emits),
   NumLocals |-> numLocals, NumParameters |-> numParams]

(***************************************************************************)
(* The scripts the host loads, compiled as Compiler.Compile compiles them. *)
(* The token of a `func name(...)` declaration carries line 0, so lastLine *)
(* keeps the line of the previous body when the closure is emitted.        *)
(***************************************************************************)

\* 1 func add(a, b) {          5 func sum(a, b) {       9 func nothing(a) {
\* 2   return a + b            6   var c = a + b       10   var q = a
\* 3 }                         7   return c            11 }
\*                             8 }
\* 12 func caller() {
\* 13   var t = sum(1, 2)
\* 14   nothing(t)
\* 15   return t + len("ab")
\* 16 }
\* globals: add 0, sum 1, nothing 2, caller 3
ProgCalls ==
  [fns |-> <<
     CompiledFunction("add",
       << <<OpGetLocal, <<0>>, 2>>, <<OpGetLocal, <<1>>, 2>>,
          <<OpAdd, <<>>, 2>>, <<OpReturnValue, <<>>, 2>> >>, 2, 2),
     CompiledFunction("sum",
       << <<OpGetLocal, <<0>>, 6>>, <<OpGetLocal, <<1>>, 6>>,
          <<OpAdd, <<>>, 6>>, <<OpSetLocal, <<2>>, 6>>,
          <<OpGetLocal, <<2>>, 7>>, <<OpReturnValue, <<>>, 7>> >>, 3, 2),
     CompiledFunction("nothing",
       << <<OpGetLocal, <<0>>, 10>>, <<OpSetLocal, <<1>>, 10>>,
          <<OpReturn, <<>>, 10>> >>, 2, 1),
     CompiledFunction("caller",
       << <<OpGetGlobal, <<1>>, 13>>, <<OpConstant, <<3>>, 13>>,
          <<OpConstant, <<4>>, 13>>, <<OpCall, <<2>>, 13>>,
          <<OpSetLocal, <<0>>, 13>>,
          <<OpGetGlobal, <<2>>, 14>>, <<OpGetLocal, <<0>>, 14>>,
          <<OpCall, <<1>>, 14>>, <<OpPop, <<>>, 14>>,
          <<OpGetLocal, <<0>>, 15>>, <<OpGetBuiltin, <<BuiltinLen>>, 15>>,
          <<OpConstant, <<5>>, 15>>, <<OpCall, <<1>>, 15>>,
          <<OpAdd, <<>>, 15>>, <<OpReturnValue, <<>>, 15>> >>, 1, 0) >>,
   constants |-> <<FnConst(1), FnConst(2), FnConst(3), Integer(1), Integer(2),
                   Str("ab"), FnConst(4)>>,
   main |-> CompiledFunction("main",
       << <<OpClosure, <<0, 0>>, 2>>, <<OpSetGlobal, <<0>>, 2>>,
          <<OpClosure, <<1, 0>>, 7>>, <<OpSetGlobal, <<1>>, 7>>,
          <<OpClosure, <<2, 0>>, 10>>, <<OpSetGlobal, <<2>>, 10>>,
          <<OpClosure, <<6, 0>>, 15>>, <<OpSetGlobal, <<3>>, 15>> >>, 0, 0),
   shared |-> TRUE, less |-> 1,
   menu |-> { [kind |-> "Run", g |-> 0, args |-> <<>>, ctx |-> "bg"],
              [kind |-> "Invoke", g |-> 0,
               args |-> <<Integer(1), Integer(2)>>, ctx |-> "bg"],
              [kind |-> "Invoke", g |-> 0,
               args |-> <<Integer(3), Integer(4)>>, ctx |-> "bg"],
              [kind |-> "Invoke", g |-> 3, args |-> <<>>, ctx |-> "bg"],
              [kind |-> "Invoke", g |-> 1,
               args |-> <<Integer(5)>>, ctx |-> "bg"] }]

\* 1 var x = 0
\* 2 func inc() {
\* 3   x = x + 1
\* 4   return x
\* 5 }
\* globals: x 0, inc 1
ProgInc ==
  [fns |-> <<
     CompiledFunction("inc",
       << <<OpGetGlobal, <<0>>, 3>>, <<OpConstant, <<1>>, 3>>,
          <<OpAdd, <<>>, 3>>, <<OpSetGlobal, <<0>>, 3>>,
          <<OpGetGlobal, <<0>>, 3>>, <<OpPop, <<>>, 3>>,
          <<OpGetGlobal, <<0>>, 4>>, <<OpReturnValue, <<>>, 4>> >>, 0, 0) >>,
   constants |-> <<Integer(0), Integer(1), FnConst(1)>>,
   main |-> CompiledFunction("main",
       << <<OpConstant, <<0>>, 1>>, <<OpSetGlobal, <<0>>, 1>>,
          <<OpClosure, <<2, 0>>, 4>>, <<OpSetGlobal, <<1>>, 4>> >>, 0, 0),
   shared |-> FALSE, less |-> 0,
   menu |-> { [kind |-> "Run", g |-> 0, args |-> <<>>, ctx |-> "bg"],
              [kind |-> "Invoke", g |-> 1, args |-> <<>>, ctx |-> "bg"] }]

\* 1 func g(a) {          4 func f() {
\* 2   return a           5   var x = x
\* 3 }                    6   return x
\*                        7 }
\* globals: g 0, f 1
ProgLeftover ==
  [fns |-> <<
     CompiledFunction("g",
       << <<OpGetLocal, <<0>>, 2>>, <<OpReturnValue, <<>>, 2>> >>, 1, 1),
     CompiledFunction("f",
       << <<OpGetLocal, <<0>>, 5>>, <<OpSetLocal, <<0>>, 5>>,
          <<OpGetLocal, <<0>>, 6>>, <<OpReturnValue, <<>>, 6>> >>, 1, 0) >>,
   constants |-> <<FnConst(1), FnConst(2)>>,
   main |-> CompiledFunction("main",
       << <<OpClosure, <<0, 0>>, 2>>, <<OpSetGlobal, <<0>>, 2>>,
          <<OpClosure, <<1, 0>>, 6>>, <<OpSetGlobal, <<1>>, 6>> >>, 0, 0),
   shared |-> FALSE, less |-> 0,
   menu |-> { [kind |-> "Run", g |-> 0, args |-> <<>>, ctx |-> "bg"],
              [kind |-> "Invoke", g |-> 0,
               args |-> <<Integer(42)>>, ctx |-> "bg"],
              [kind |-> "Invoke", g |-> 1, args |-> <<>>, ctx |-> "bg"] }]

\* 1 func spin() {        4 func work() {
\* 2   for { }            5   var i = 0
\* 3 }                    6   for i < 100 {
\*                        7     i = i + 1
\*                        8   }
\*                        9   return i
\*                       10 }
\* globals: spin 0, work 1
ProgLoops ==
  [fns |-> <<
     CompiledFunction("spin",
       << <<OpJump, <<0>>, 2>>, <<OpReturn, <<>>, 2>> >>, 0, 0),
     CompiledFunction("work",
       << <<OpConstant, <<1>>, 5>>, <<OpSetLocal, <<0>>, 5>>,
          <<OpConstant, <<2>>, 6>>, <<OpGetLocal, <<0>>, 6>>,
          <<OpGreaterThan, <<>>, 6>>, <<OpJumpNotTruthy, <<28>>, 6>>,
          <<OpGetLocal, <<0>>, 7>>, <<OpConstant, <<3>>, 7>>,
          <<OpAdd, <<>>, 7>>, <<OpSetLocal, <<0>>, 7>>,
          <<OpGetLocal, <<0>>, 7>>, <<OpPop, <<>>, 7>>,
          <<OpJump, <<5>>, 7>>,
          <<OpGetLocal, <<0>>, 9>>, <<OpReturnValue, <<>>, 9>> >>, 1, 0) >>,
   constants |-> <<FnConst(1), Integer(0), Integer(100), Integer(1),
                   FnConst(2)>>,
   main |-> CompiledFunction("main",
       << <<OpClosure, <<0, 0>>, 2>>, <<OpSetGlobal, <<0>>, 2>>,
          <<OpClosure, <<4, 0>>, 9>>, <<OpSetGlobal, <<1>>, 9>> >>, 0, 0),
   shared |-> FALSE, less |-> 1,
   menu |-> { [kind |-> "Run", g |-> 0, args |-> <<>>, ctx |-> "bg"],
              [kind |-> "Invoke", g |-> 0, args |-> <<>>, ctx |-> "tok"],
              [kind |-> "Invoke", g |-> 1, args |-> <<>>, ctx |-> "tok"] }]

\* 1 func boom() {        5 func bad() {             8 func outer() {
\* 2   var z = 0          6   return 1 + "wrong"     9   return bad()
\* 3   return 10 / z      7 }                       10 }
\* 4 }
\* 11 func modz() {      14 func half(a) {
\* 12   return 7 % 0     15   return 9 / a
\* 13 }                  16 }
\* globals: boom 0, bad 1, outer 2, modz 3, half 4
ProgErrors ==
  [fns |-> <<
     CompiledFunction("boom",
       << <<OpConstant, <<0>>, 2>>, <<OpSetLocal, <<0>>, 2>>,
          <<OpConstant, <<1>>, 3>>, <<OpGetLocal, <<0>>, 3>>,
          <<OpDiv, <<>>, 3>>, <<OpReturnValue, <<>>, 3>> >>, 1, 0),
     CompiledFunction("bad",
       << <<OpConstant, <<3>>, 6>>, <<OpConstant, <<4>>, 6>>,
          <<OpAdd, <<>>, 6>>, <<OpReturnValue, <<>>, 6>> >>, 0, 0),
     CompiledFunction("outer",
       << <<OpGetGlobal, <<1>>, 9>>, <<OpCall, <<0>>, 9>>,
          <<OpReturnValue, <<>>, 9>> >>, 0, 0),
     CompiledFunction("modz",
       << <<OpConstant, <<7>>, 12>>, <<OpConstant, <<8>>, 12>>,
          <<OpMod, <<>>, 12>>, <<OpReturnValue, <<>>, 12>> >>, 0, 0),
     CompiledFunction("half",
       << <<OpConstant, <<10>>, 15>>, <<OpGetLocal, <<0>>, 15>>,
          <<OpDiv, <<>>, 15>>, <<OpReturnValue, <<>>, 15>> >>, 1, 1) >>,
   constants |-> <<Integer(0), Integer(10), FnConst(1), Integer(1),
                   Str("wrong"), FnConst(2), FnConst(3), Integer(7),
                   Integer(0), FnConst(4), Integer(9), FnConst(5)>>,
   main |-> CompiledFunction("main",
       << <<OpClosure, <<2, 0>>, 3>>, <<OpSetGlobal, <<0>>, 3>>,
          <<OpClosure, <<5, 0>>, 6>>, <<OpSetGlobal, <<1>>, 6>>,
          <<OpClosure, <<6, 0>>, 9>>, <<OpSetGlobal, <<2>>, 9>>,
          <<OpClosure, <<9, 0>>, 12>>, <<OpSetGlobal, <<3>>, 12>>,
          <<OpClosure, <<11, 0>>, 15>>, <<OpSetGlobal, <<4>>, 15>> >>, 0, 0),
   shared |-> FALSE, less |-> 1,
   menu |-> { [kind |-> "Run", g |-> 0, args |-> <<>>, ctx |-> "bg"],
              [kind |-> "Invoke", g |-> 0, args |-> <<>>, ctx |-> "bg"],
              [kind |-> "Invoke", g |-> 2, args |-> <<>>, ctx |-> "bg"],
              [kind |-> "Invoke", g |-> 3, args |-> <<>>, ctx |-> "bg"],
              [kind |-> "Invoke", g |-> 4,
               args |-> <<Integer(-2)>>, ctx |-> "bg"] }]

\* 1 func bad() {
\* 2   1 + "a"
\* 3   return 2 + "b"
\* 4 }
\* 5 bad()
\* globals: bad 0
ProgTop ==
  [fns |-> <<
     CompiledFunction("bad",
       << <<OpConstant, <<0>>, 2>>, <<OpConstant, <<1>>, 2>>,
          <<OpAdd, <<>>, 2>>, <<OpPop, <<>>, 2>>,
          <<OpConstant, <<2>>, 3>>, <<OpConstant, <<3>>, 3>>,
          <<OpAdd, <<>>, 3>>, <<OpReturnValue, <<>>, 3>> >>, 0, 0) >>,
   constants |-> <<Integer(1), Str("a"), Integer(2), Str("b"), FnConst(1)>>,
   main |-> CompiledFunction("main",
       << <<OpClosure, <<4, 0>>, 3>>, <<OpSetGlobal, <<0>>, 3>>,
          <<OpGetGlobal, <<0>>, 5>>, <<OpCall, <<0>>, 5>>,
          <<OpPop, <<>>, 5>> >>, 0, 0),
   shared |-> FALSE, less |-> 0,
   menu |-> { [kind |-> "Run", g |-> 0, args |-> <<>>, ctx |-> "bg"],
              [kind |-> "Invoke", g |-> 0, args |-> <<>>, ctx |-> "bg"] }]

\* the statements  var v1 = null; ... var v<n> = null  of one line
Decls(n, line) ==
  [k \in 1..(2 * n) |->
     IF k % 2 = 1 THEN <<OpNull, <<>>, line>>
     ELSE <<OpSetLocal, <<(k \div 2) - 1>>, line>>]

\* 1 func deep() {
\* 2   deep()
\* 3   var v1 = null; var v2 = null; ... var v255 = null
\* 4 }
\* globals: deep 0
ProgDeep ==
  [fns |-> <<
     CompiledFunction("deep",
       << <<OpGetGlobal, <<0>>, 2>>, <<OpCall, <<0>>, 2>>,
          <<OpPop, <<>>, 2>> >>
       \o Decls(255, 3)
       \o << <<OpReturn, <<>>, 3>> >>, 255, 0) >>,
   constants |-> <<FnConst(1)>>,
   main |-> CompiledFunction("main",
       << <<OpClosure, <<0, 0>>, 3>>, <<OpSetGlobal, <<0>>, 3>> >>, 0, 0),
   shared |-> FALSE, less |-> 2,
   menu |-> { [kind |-> "Run", g |-> 0, args |-> <<>>, ctx |-> "bg"],
              [kind |-> "Invoke", g |-> 0, args |-> <<>>, ctx |-> "bg"] }]

(***************************************************************************)
(* Compiler.Compile for the expressions whose operand order matters: the   *)
(* operands are given as the emits their own Compile produces.             *)
(***************************************************************************)
\* c.emit(op, operands...) while c.lastLine = line
Emit(op, operands, line) == << <<op, operands, line>> >>

RECURSIVE CompileAll(_)
\* for _, a := range nodes { c.Compile(a) }
CompileAll(nodes) ==
  IF nodes = <<>> THEN <<>> ELSE Head(nodes) \o CompileAll(Tail(nodes))

\* len(c.currentInstructions()) after the emits
Size(emits) == Len(Assemble(emits))

\* case *ast.InfixExpression, compiled at position at of the scope
InfixExpression(at, operator, left, right, line) ==
  CASE operator = "<" -> right \o left \o Emit(OpGreaterThan, <<>>, line)
    [] operator = "<=" ->
         left \o right \o Emit(OpGreaterThan, <<>>, line)
           \o Emit(OpBang, <<>>, line)
    [] operator = ">=" ->
         right \o left \o Emit(OpGreaterThan, <<>>, line)
           \o Emit(OpBang, <<>>, line)
    [] operator = "&&" ->
         LET afterRightPos == at + Size(left) + 1 + 3 + 1 + Size(right)
         IN  left \o Emit(OpDup, <<>>, line)
               \o Emit(OpJumpNotTruthy, <<afterRightPos>>, line)
               \o Emit(OpPop, <<>>, line) \o right
    [] operator = "||" ->
         LET afterLeftPos == at + Size(left) + 1 + 3 + 3
             afterRightPos == afterLeftPos + 1 + Size(right)
         IN  left \o Emit(OpDup, <<>>, line)
               \o Emit(OpJumpNotTruthy, <<afterLeftPos>>, line)
               \o Emit(OpJump, <<afterRightPos>>, line)
               \o Emit(OpPop, <<>>, line) \o right
    [] OTHER ->
         left \o right
           \o Emit(CASE operator = "+" -> OpAdd
                     [] operator = "-" -> OpSub
                     [] operator = "*" -> OpMul
                     [] operator = "/" -> OpDiv
                     [] operator = "%" -> OpMod
                     [] operator = ">" -> OpGreaterThan
                     [] operator = "==" -> OpEqual
                     [] operator = "!=" -> OpNotEqual, <<>>, line)

\* Compiler.removeLastPop when lastInstructionIs(OpPop)
RemoveLastPop(emits) ==
  IF emits # <<>> /\ emits[Len(emits)][1] = OpPop
    THEN SubSeq(emits, 1, Len(emits) - 1)
    ELSE emits

\* case *ast.IfExpression, compiled at position at of the scope;
\* hasAlternative is node.Alternative != nil
IfExpression(at, condition, consequence, hasAlternative, alternative, line) ==
  LET cons == RemoveLastPop(consequence)
      alt == IF hasAlternative THEN RemoveLastPop(alternative)
             ELSE Emit(OpNull, <<>>, line)
      afterConsequencePos == at + Size(condition) + 3 + Size(cons) + 3
      afterAlternativePos == afterConsequencePos + Size(alt)
  IN  condition \o Emit(OpJumpNotTruthy, <<afterConsequencePos>>, line)
        \o cons \o Emit(OpJump, <<afterAlternativePos>>, line) \o alt

\* case *ast.ForStatement with a condition, compiled at position at
ForStatement(at, init, condition, body, post, line) ==
  LET startPos == at + Size(init)
      afterBodyPos == startPos + Size(condition) + 3 + Size(body)
                        + Size(post) + 3
  IN  init \o condition \o Emit(OpJumpNotTruthy, <<afterBodyPos>>, line)
        \o body \o post \o Emit(OpJump, <<startPos>>, line)

\* case *ast.CallExpression
CallExpression(function, arguments, line) ==
  function \o CompileAll(arguments)
    \o Emit(OpCall, <<Len(arguments)>>, line)

\* the operators of the functions of ProgOrder, in the order of declaration
OrderOps == <<"<", "<=", ">", ">=", "+", "-", "*", "==", "!=">>
OrderNames == <<"lt", "le", "gt", "ge", "plus", "minus", "times", "eq", "ne">>

\*  1 func l() { print("L"); return 1 }
\*  2 func r() { print("R"); return 2 }
\*  3 func pair(a, b) { return a }
\*  4 func lt() { return l() < r() }     ...   12 func ne() { return l() != r() }
\* 13 func args() { return pair(l(), r()) }
\* globals: l 0, r 1, pair 2, lt 3, ..., ne 11, args 12
ProgOrder ==
  LET noisy(name, const, line) ==
        CompiledFunction(name,
          CallExpression(Emit(OpGetBuiltin, <<BuiltinPrint>>, line),
                         <<Emit(OpConstant, <<const>>, line)>>, line)
            \o Emit(OpPop, <<>>, line)
            \o Emit(OpConstant, <<const + 1>>, line)
            \o Emit(OpReturnValue, <<>>, line), 0, 0)
      L(line) == CallExpression(Emit(OpGetGlobal, <<0>>, line), <<>>, line)
      R(line) == CallExpression(Emit(OpGetGlobal, <<1>>, line), <<>>, line)
      nops == Len(OrderOps)
  IN
  [fns |-> <<noisy("l", 0, 1), noisy("r", 3, 2),
             CompiledFunction("pair",
               Emit(OpGetLocal, <<0>>, 3) \o Emit(OpReturnValue, <<>>, 3),
               2, 2)>>
           \o [k \in 1..nops |->
                 CompiledFunction(OrderNames[k],
                   InfixExpression(0, OrderOps[k], L(3 + k), R(3 + k), 3 + k)
                     \o Emit(OpReturnValue, <<>>, 3 + k), 0, 0)]
           \o <<CompiledFunction("args",
                  CallExpression(Emit(OpGetGlobal, <<2>>, 13),
                                 <<L(13), R(13)>>, 13)
                    \o Emit(OpReturnValue, <<>>, 13), 0, 0)>>,
   constants |-> <<Str("L"), Integer(1), FnConst(1), Str("R"), Integer(2),
                   FnConst(2), FnConst(3)>>
                 \o [k \in 1..(nops + 1) |-> FnConst(3 + k)],
   main |-> CompiledFunction("main",
       Emit(OpClosure, <<2, 0>>, 1) \o Emit(OpSetGlobal, <<0>>, 1)
         \o Emit(OpClosure, <<5, 0>>, 2) \o Emit(OpSetGlobal, <<1>>, 2)
         \o Emit(OpClosure, <<6, 0>>, 3) \o Emit(OpSetGlobal, <<2>>, 3)
         \o CompileAll([k \in 1..(nops + 1) |->
              Emit(OpClosure, <<6 + k, 0>>, 3 + k)
                \o Emit(OpSetGlobal, <<2 + k>>, 3 + k)]), 0, 0),
   shared |-> FALSE, less |-> 1,
   menu |-> { [kind |-> "Run", g |-> 0, args |-> <<>>, ctx |-> "bg"] }
            \cup { [kind |-> "Invoke", g |-> 2 + k, args |-> <<>>,
                    ctx |-> "bg"] : k \in 1..(nops + 1) }]

\* object.Float, the value in tenths
Float(tenths) == Obj("FLOAT", tenths, "", <<>>, 0)
\* objects of the types that are no condition
Array(elems) == Obj("ARRAY", 0, "", elems, 0)
Hash == Obj("HASH", 0, "", <<>>, 0)
User == Obj("USER_OBJ", 0, "", <<>>, 0)
Tuple(elems) == Obj("TUPLE", 0, "", elems, 0)

\* the values the host passes as the condition
CondValues ==
  {True, False, Null, Integer(0), Integer(3), Float(0), Float(1), Str(""),
   Str("a"), Array(<<>>), Hash, Closure(1, <<>>), User,
   Tuple(<<True, False>>)}

\* print(text) as an expression statement
PrintStatement(const, line) ==
  CallExpression(Emit(OpGetBuiltin, <<BuiltinPrint>>, line),
                 <<Emit(OpConstant, <<const>>, line)>>, line)
    \o Emit(OpPop, <<>>, line)

\* 1 func cond(x) { if (x) { print("then") } else { print("else") }
\* 2                return 0 }
\* 3 func loop(x) { for x { print("body"); return 1 }
\* 4                return 0 }
\* 5 func and(x) { return x && print("right") }
\* 6 func or(x) { return x || print("right") }
\* globals: cond 0, loop 1, and 2, or 3
ProgCond ==
  LET x(line) == Emit(OpGetLocal, <<0>>, line)
      right(const, line) ==
        CallExpression(Emit(OpGetBuiltin, <<BuiltinPrint>>, line),
                       <<Emit(OpConstant, <<const>>, line)>>, line)
  IN
  [fns |-> <<
     CompiledFunction("cond",
       IfExpression(0, x(1), PrintStatement(0, 1), TRUE,
                    PrintStatement(1, 1), 1)
         \o Emit(OpPop, <<>>, 1)
         \o Emit(OpConstant, <<2>>, 2) \o Emit(OpReturnValue, <<>>, 2),
       1, 1),
     CompiledFunction("loop",
       ForStatement(0, <<>>, x(3),
                    PrintStatement(4, 3) \o Emit(OpConstant, <<5>>, 3)
                      \o Emit(OpReturnValue, <<>>, 3), <<>>, 3)
         \o Emit(OpConstant, <<6>>, 4) \o Emit(OpReturnValue, <<>>, 4),
       1, 1),
     CompiledFunction("and",
       InfixExpression(0, "&&", x(5), right(8, 5), 5)
         \o Emit(OpReturnValue, <<>>, 5), 1, 1),
     CompiledFunction("or",
       InfixExpression(0, "||", x(6), right(10, 6), 6)
         \o Emit(OpReturnValue, <<>>, 6), 1, 1) >>,
   constants |-> <<Str("then"), Str("else"), Integer(0), FnConst(1),
                   Str("body"), Integer(1), Integer(0), FnConst(2),
                   Str("right"), FnConst(3), Str("right"), FnConst(4)>>,
   main |-> CompiledFunction("main",
       Emit(OpClosure, <<3, 0>>, 2) \o Emit(OpSetGlobal, <<0>>, 2)
         \o Emit(OpClosure, <<7, 0>>, 4) \o Emit(OpSetGlobal, <<1>>, 4)
         \o Emit(OpClosure, <<9, 0>>, 5) \o Emit(OpSetGlobal, <<2>>, 5)
         \o Emit(OpClosure, <<11, 0>>, 6) \o Emit(OpSetGlobal, <<3>>, 6),
       0, 0),
   shared |-> FALSE, less |-> 2,
   menu |-> { [kind |-> "Run", g |-> 0, args |-> <<>>, ctx |-> "bg"] }
            \cup { [kind |-> "Invoke", g |-> g, args |-> <<v>>,
                    ctx |-> "bg"] : g \in 0..3, v \in CondValues }]

\* &object.Boolean{Value: b} made by the host: an instance of its own
HostBoolean(b, inst) == Obj("BOOLEAN", IF b THEN 1 ELSE 0, "", <<>>, inst)

\* the primitives the host passes to be compared, by kind
Primitives ==
  [BOOLEAN |-> {True, False, HostBoolean(TRUE, 1)},
   NULL |-> {Null},
   INTEGER |-> {Integer(1), Integer(2)},
   FLOAT |-> {Float(0), Float(5)},
   STRING |-> {Str("a"), Str("b")}]

\* 1 func eq(a, b) { return a == b }
\* 2 func ne(a, b) { return a != b }
\* 3 func lit(a) { return a == true }
\* globals: eq 0, ne 1, lit 2
ProgEq ==
  [fns |-> <<
     CompiledFunction("eq",
       InfixExpression(0, "==", Emit(OpGetLocal, <<0>>, 1),
                       Emit(OpGetLocal, <<1>>, 1), 1)
         \o Emit(OpReturnValue, <<>>, 1), 2, 2),
     CompiledFunction("ne",
       InfixExpression(0, "!=", Emit(OpGetLocal, <<0>>, 2),
                       Emit(OpGetLocal, <<1>>, 2), 2)
         \o Emit(OpReturnValue, <<>>, 2), 2, 2),
     CompiledFunction("lit",
       InfixExpression(0, "==", Emit(OpGetLocal, <<0>>, 3),
                       Emit(OpTrue, <<>>, 3), 3)
         \o Emit(OpReturnValue, <<>>, 3), 1, 1) >>,
   constants |-> <<FnConst(1), FnConst(2), FnConst(3)>>,
   main |-> CompiledFunction("main",
       Emit(OpClosure, <<0, 0>>, 1) \o Emit(OpSetGlobal, <<0>>, 1)
         \o Emit(OpClosure, <<1, 0>>, 2) \o Emit(OpSetGlobal, <<1>>, 2)
         \o Emit(OpClosure, <<2, 0>>, 3) \o Emit(OpSetGlobal, <<2>>, 3),
       0, 0),
   shared |-> FALSE, less |-> 2,
   menu |-> { [kind |-> "Run", g |-> 0, args |-> <<>>, ctx |-> "bg"] }
            \cup UNION { { [kind |-> "Invoke", g |-> g, args |-> <<a, b>>,
                             ctx |-> "bg"] :
                             g \in 0..1, a \in Primitives[k],
                             b \in Primitives[k] } :
                           k \in DOMAIN Primitives }
            \cup { [kind |-> "Invoke", g |-> 2, args |-> <<a>>,
                    ctx |-> "bg"] : a \in Primitives.BOOLEAN }]

\* case *ast.LetStatement: the value, Destructure for several names, the
\* stores in reverse order; symbols are the <<scope, index>> of the names
LetStatement(symbols, value, line) ==
  value
    \o (IF Len(symbols) > 1
          THEN Emit(OpDestructure, <<Len(symbols)>>, line) ELSE <<>>)
    \o CompileAll([k \in 1..Len(symbols) |->
          LET symbol == symbols[Len(symbols) + 1 - k]
          IN  IF symbol[1] = "GLOBAL"
                THEN Emit(OpSetGlobal, <<symbol[2]>>, line)
                ELSE Emit(OpSetLocal, <<symbol[2]>>, line)])

\* the locals first .. first + n - 1 as the names of a declaration
Locals(first, n) == [k \in 1..n |-> <<"LOCAL", first + k - 1>>]

\* the multi-target declaration each function of ProgDestructure starts with
DeclOf(name) ==
  CASE name = "two" ->
         LetStatement(Locals(1, 2), Emit(OpGetLocal, <<0>>, 2), 2)
    [] name = "three" ->
         LetStatement(Locals(1, 3), Emit(OpGetLocal, <<0>>, 3), 3)
    [] name = "pair" ->
         LetStatement(Locals(2, 2),
           CallExpression(
             Emit(OpGetBuiltin, <<BuiltinTestMultiReturn>>, 4),
             <<Emit(OpGetLocal, <<0>>, 4), Emit(OpGetLocal, <<1>>, 4)>>, 4),
           4)

\* the values the host passes to be destructured
DestructureValues ==
  {Integer(7), Null, Str("s"), Tuple(<<Integer(4)>>),
   Tuple(<<Integer(1), Integer(2)>>),
   Tuple(<<Integer(1), Integer(2), Integer(3)>>)}

\* 1 var p, q = testMultiReturn(1, 2)
\* 2 func two(x) { var a, b = x; return a * 10 + b }
\* 3 func three(x) { var a, b, c = x; return a * 10 + c }
\* 4 func pair(y, z) { var a, b = testMultiReturn(y, z); return a * 10 + b }
\* and two functions of bytecode that no script compiles to:
\*   one(x):   GetLocal 0; Destructure 1; SetLocal 1; GetLocal 1; ReturnValue
\*   none(x):  GetLocal 0; Destructure 0; Return
\* globals: p 0, q 1, two 2, three 3, pair 4, one 5, none 6
ProgDestructure ==
  LET tens(first, const, last, line) ==
        InfixExpression(0, "+",
          InfixExpression(0, "*", Emit(OpGetLocal, <<first>>, line),
                          Emit(OpConstant, <<const>>, line), line),
          Emit(OpGetLocal, <<last>>, line), line)
          \o Emit(OpReturnValue, <<>>, line)
  IN
  [fns |-> <<
     CompiledFunction("two", DeclOf("two") \o tens(1, 2, 2, 2), 3, 1),
     CompiledFunction("three", DeclOf("three") \o tens(1, 4, 3, 3), 4, 1),
     CompiledFunction("pair", DeclOf("pair") \o tens(2, 6, 3, 4), 4, 2),
     CompiledFunction("one",
       Emit(OpGetLocal, <<0>>, 5) \o Emit(OpDestructure, <<1>>, 5)
         \o Emit(OpSetLocal, <<1>>, 5) \o Emit(OpGetLocal, <<1>>, 5)
         \o Emit(OpReturnValue, <<>>, 5), 2, 1),
     CompiledFunction("none",
       Emit(OpGetLocal, <<0>>, 6) \o Emit(OpDestructure, <<0>>, 6)
         \o Emit(OpReturn, <<>>, 6), 1, 1) >>,
   constants |-> <<Integer(1), Integer(2), Integer(10), FnConst(1),
                   Integer(10), FnConst(2), Integer(10), FnConst(3),
                   FnConst(4), FnConst(5)>>,
   main |-> CompiledFunction("main",
       LetStatement(<< <<"GLOBAL", 0>>, <<"GLOBAL", 1>> >>,
         CallExpression(
           Emit(OpGetBuiltin, <<BuiltinTestMultiReturn>>, 1),
           <<Emit(OpConstant, <<0>>, 1), Emit(OpConstant, <<1>>, 1)>>, 1),
         1)
         \o Emit(OpClosure, <<3, 0>>, 2) \o Emit(OpSetGlobal, <<2>>, 2)
         \o Emit(OpClosure, <<5, 0>>, 3) \o Emit(OpSetGlobal, <<3>>, 3)
         \o Emit(OpClosure, <<7, 0>>, 4) \o Emit(OpSetGlobal, <<4>>, 4)
         \o Emit(OpClosure, <<8, 0>>, 5) \o Emit(OpSetGlobal, <<5>>, 5)
         \o Emit(OpClosure, <<9, 0>>, 6) \o Emit(OpSetGlobal, <<6>>, 6),
       0, 0),
   shared |-> FALSE, less |-> 2,
   menu |-> { [kind |-> "Run", g |-> 0, args |-> <<>>, ctx |-> "bg"] }
            \cup { [kind |-> "Invoke", g |-> g, args |-> <<x>>,
                    ctx |-> "bg"] :
                    g \in {2, 3, 5, 6}, x \in DestructureValues }
            \cup { [kind |-> "Invoke", g |-> 4, args |-> <<y, z>>,
                    ctx |-> "bg"] :
                    y \in {Integer(1), Integer(2)},
                    z \in {Integer(2), Str("z")} }]

\* 1 func boom(x) { print("before"); panic(x); print("after"); return 1 }
\* 2 func crit() { print("before"); len(); print("after"); return 1 }
\* 3 func bad(x) { print("before"); len(x); print("after"); return 1 }
\* 4 func nested(x) { var r = boom(x); print("after"); return r }
\* globals: boom 0, crit 1, bad 2, nested 3
ProgPanic ==
  LET stops(name, builtin, arguments, const, line, numParams) ==
        CompiledFunction(name,
          PrintStatement(const, line)
            \o CallExpression(Emit(OpGetBuiltin, <<builtin>>, line),
                               arguments, line)
            \o Emit(OpPop, <<>>, line)
            \o PrintStatement(const + 1, line)
            \o Emit(OpConstant, <<const + 2>>, line)
            \o Emit(OpReturnValue, <<>>, line), numParams, numParams)
      x(line) == Emit(OpGetLocal, <<0>>, line)
  IN
  [fns |-> <<
     stops("boom", BuiltinPanic, <<x(1)>>, 0, 1, 1),
     stops("crit", BuiltinLen, <<>>, 4, 2, 0),
     stops("bad", BuiltinLen, <<x(3)>>, 8, 3, 1),
     CompiledFunction("nested",
       LetStatement(<< <<"LOCAL", 1>> >>,
         CallExpression(Emit(OpGetGlobal, <<0>>, 4), <<x(4)>>, 4), 4)
         \o PrintStatement(12, 4)
         \o Emit(OpGetLocal, <<1>>, 4) \o Emit(OpReturnValue, <<>>, 4),
       2, 1) >>,
   constants |-> <<Str("before"), Str("after"), Integer(1), FnConst(1),
                   Str("before"), Str("after"), Integer(1), FnConst(2),
                   Str("before"), Str("after"), Integer(1), FnConst(3),
                   Str("after"), FnConst(4)>>,
   main |-> CompiledFunction("main",
       Emit(OpClosure, <<3, 0>>, 1) \o Emit(OpSetGlobal, <<0>>, 1)
         \o Emit(OpClosure, <<7, 0>>, 2) \o Emit(OpSetGlobal, <<1>>, 2)
         \o Emit(OpClosure, <<11, 0>>, 3) \o Emit(OpSetGlobal, <<2>>, 3)
         \o Emit(OpClosure, <<13, 0>>, 4) \o Emit(OpSetGlobal, <<3>>, 4),
       0, 0),
   shared |-> FALSE, less |-> 1,
   menu |-> { [kind |-> "Run", g |-> 0, args |-> <<>>, ctx |-> "bg"],
              [kind |-> "Invoke", g |-> 1, args |-> <<>>, ctx |-> "bg"] }
            \cup { [kind |-> "Invoke", g |-> g, args |-> <<v>>,
                    ctx |-> "bg"] :
                    g \in {0, 2, 3}, v \in {Str("oops"), Integer(5)} }]

(***************************************************************************)
(* The symbol table: the scopes from the outermost to the current one,     *)
(* each with the names defined in it in the order of definition (the index *)
(* of a name is its position less one) and the symbols it took from the    *)
(* enclosing functions as free variables.                                  *)
(***************************************************************************)
NoSymbol == [Scope |-> "NONE", Index |-> 0]
NewScope == [store |-> <<>>, free |-> <<>>, freeNames |-> <<>>]

\* NewSymbolTable
NewSymbolTable == <<NewScope>>

\* NewEnclosedSymbolTable(outer)
NewEnclosedSymbolTable(outer) == Append(outer, NewScope)

\* the names DefineBuiltin installs, with their index in object.Builtins
BuiltinNames ==
  [len |-> BuiltinLen, print |-> BuiltinPrint, panic |-> BuiltinPanic,
   testMultiReturn |-> BuiltinTestMultiReturn]

\* the position of the latest definition of name in a sequence of names,
\* 0 when there is none
PosOf(names, name) ==
  IF \E i \in 1..Len(names) : names[i] = name
    THEN CHOOSE i \in 1..Len(names) :
           /\ names[i] = name
           /\ \A j \in (i + 1)..Len(names) : names[j] # name
    ELSE 0

\* SymbolTable.Define: the table after the definition in the current scope
Define(st, name) ==
  [st EXCEPT ![Len(st)].store = Append(@, name)]

\* the symbol SymbolTable.Define returns, st the table before the call
Defined(st, name) ==
  [Scope |-> IF Len(st) = 1 THEN "GLOBAL" ELSE "LOCAL",
   Index |-> Len(st[Len(st)].store)]

RECURSIVE ResolveAt(_, _, _)
\* SymbolTable.Resolve from the scope at depth d: the symbol and the table
\* after the promotions to free variables
ResolveAt(st, d, name) ==
  LET scope == st[d]
  IN  IF PosOf(scope.store, name) # 0
        THEN [symbol |-> [Scope |-> IF d = 1 THEN "GLOBAL" ELSE "LOCAL",
                          Index |-> PosOf(scope.store, name) - 1],
              st |-> st]
      ELSE IF PosOf(scope.freeNames, name) # 0
        THEN [symbol |-> [Scope |-> "FREE",
                          Index |-> PosOf(scope.freeNames, name) - 1],
              st |-> st]
      ELSE IF d = 1
        THEN [symbol |-> IF name \in DOMAIN BuiltinNames
                           THEN [Scope |-> "BUILTIN",
                                 Index |-> BuiltinNames[name]]
                           ELSE NoSymbol,
              st |-> st]
      ELSE LET r == ResolveAt(st, d - 1, name)
           IN  IF r.symbol.Scope \in {"NONE", "GLOBAL", "BUILTIN"} THEN r
               ELSE [symbol |-> [Scope |-> "FREE",
                                 Index |-> Len(scope.free)],
                     st |-> [r.st EXCEPT
                               ![d].free = Append(@, r.symbol),
                               ![d].freeNames = Append(@, name)]]

\* SymbolTable.Resolve
Resolve(st, name) == ResolveAt(st, Len(st), name)

(***************************************************************************)
(* The syntax tree the parser hands to the compiler.  A let statement      *)
(* carries an id, its identity as a key of Compiler.symbolDefinitions; the *)
(* token of a func declaration carries line 0.                             *)
(***************************************************************************)
AstInt(v, line) == [kind |-> "int", v |-> v, line |-> line]
AstIdent(name, line) == [kind |-> "ident", name |-> name, line |-> line]
AstCall(function, arguments, line) ==
  [kind |-> "call", function |-> function, arguments |-> arguments,
   line |-> line]
AstInfix(operator, left, right, line) ==
  [kind |-> "infix", operator |-> operator, left |-> left, right |-> right,
   line |-> line]
AstAssign(name, value, line) ==
  [kind |-> "assign", name |-> name, value |-> value, line |-> line]
AstFunc(name, parameters, body, line) ==
  [kind |-> "func", name |-> name, parameters |-> parameters, body |-> body,
   line |-> line]
AstLet(id, names, value, line) ==
  [kind |-> "let", id |-> id, names |-> names, value |-> value,
   line |-> line]
AstReturn(value, line) == [kind |-> "return", value |-> value, line |-> line]
\* node.ReturnValue == nil
AstNone == [kind |-> "none"]
AstProgram(statements) == [kind |-> "program", statements |-> statements]
AstExpr(expression, line) ==
  [kind |-> "expr", expression |-> expression, line |-> line]
\* func name(parameters) { body }: sugar for var name = func ...
AstDecl(id, name, parameters, body) ==
  AstLet(id, <<name>>, AstFunc(name, parameters, body, 0), 0)

(***************************************************************************)
(* The compiler as a value: the symbol table st, the constants, the        *)
(* compiled functions fns (a constant FnConst(k) is fns[k]), the emits of  *)
(* each open compilation scope, symbolDefinitions defs, lastLine, and err, *)
(* the error Compile returns ("" for nil).                                 *)
(***************************************************************************)
\* compiler.New
NewCompiler ==
  [st |-> NewSymbolTable, constants |-> <<>>, fns |-> <<>>,
   scopes |-> << <<>> >>, defs |-> <<>>, lastLine |-> 0, err |-> ""]

\* Compiler.emit
emit(c, op, operands) ==
  [c EXCEPT !.scopes[Len(c.scopes)] = Append(@, <<op, operands, c.lastLine>>)]

\* Compiler.lastInstructionIs
lastInstructionIs(c, op) ==
  LET e == c.scopes[Len(c.scopes)]
  IN  e # <<>> /\ e[Len(e)][1] = op

\* Compiler.replaceLastPopWithReturn
replaceLastPopWithReturn(c) ==
  LET k == Len(c.scopes)
      n == Len(c.scopes[k])
  IN  [c EXCEPT !.scopes[k][n][1] = OpReturnValue]

\* the load of a symbol: case *ast.Identifier, after Resolve
emitLoad(c, symbol) ==
  CASE symbol.Scope = "GLOBAL" -> emit(c, OpGetGlobal, <<symbol.Index>>)
    [] symbol.Scope = "LOCAL" -> emit(c, OpGetLocal, <<symbol.Index>>)
    [] symbol.Scope = "BUILTIN" -> emit(c, OpGetBuiltin, <<symbol.Index>>)
    [] symbol.Scope = "FREE" -> emit(c, OpGetFree, <<symbol.Index>>)

RECURSIVE emitStores(_, _)
\* for i := len(symbols) - 1; i >= 0; i-- { emit OpSetGlobal / OpSetLocal }
emitStores(c, symbols) ==
  IF symbols = <<>> THEN c
  ELSE LET symbol == symbols[Len(symbols)]
       IN  emitStores(
             IF symbol.Scope = "GLOBAL"
               THEN emit(c, OpSetGlobal, <<symbol.Index>>)
               ELSE emit(c, OpSetLocal, <<symbol.Index>>),
             SubSeq(symbols, 1, Len(symbols) - 1))

RECURSIVE emitFree(_, _)
\* for _, s := range freeSymbols { emit OpGetLocal / OpGetFree }
emitFree(c, freeSymbols) ==
  IF freeSymbols = <<>> THEN c
  ELSE LET sym == Head(freeSymbols)
       IN  emitFree(
             CASE sym.Scope = "LOCAL" -> emit(c, OpGetLocal, <<sym.Index>>)
               [] sym.Scope = "FREE" -> emit(c, OpGetFree, <<sym.Index>>)
               [] OTHER -> c,
             Tail(freeSymbols))

RECURSIVE defineAll(_, _)
\* for i, name := range names { symbols[i] = c.symbolTable.Define(name) }:
\* the table and the symbols
defineAll(st, names) ==
  IF names = <<>> THEN [st |-> st, symbols |-> <<>>]
  ELSE LET r == defineAll(Define(st, Head(names)), Tail(names))
       IN  [st |-> r.st,
            symbols |-> <<Defined(st, Head(names))>> \o r.symbols]

\* no pre-scan: the names are defined when their statement is compiled
scanNothing(c, statements) == c

RECURSIVE scanSymbols(_, _)
\* Compiler.scanSymbols: the names of the top-level let statements are
\* defined and kept in symbolDefinitions
scanSymbols(c, statements) ==
  IF statements = <<>> THEN c
  ELSE LET s == Head(statements)
           r == defineAll(c.st, s.names)
       IN  scanSymbols(
             IF s.kind = "let"
               THEN [c EXCEPT !.st = r.st,
                              !.defs = (s.id :> r.symbols) @@ @]
               ELSE c,
             Tail(statements))

\* the opcodes emitted after the operands of an infix expression
InfixOps(operator) ==
  CASE operator = "<" -> <<OpGreaterThan>>
    [] operator = "<=" -> <<OpGreaterThan, OpBang>>
    [] operator = ">=" -> <<OpGreaterThan, OpBang>>
    [] operator = "+" -> <<OpAdd>>
    [] operator = "-" -> <<OpSub>>
    [] operator = "*" -> <<OpMul>>
    [] operator = "/" -> <<OpDiv>>
    [] operator = "%" -> <<OpMod>>
    [] operator = ">" -> <<OpGreaterThan>>
    [] operator = "==" -> <<OpEqual>>
    [] operator = "!=" -> <<OpNotEqual>>

RECURSIVE Compile(_, _), CompileEach(_, _), emitEach(_, _)
\* c.emit(op) for each op
emitEach(c, ops) ==
  IF ops = <<>> THEN c ELSE emitEach(emit(c, Head(ops), <<>>), Tail(ops))

\* for _, s := range nodes { err := c.Compile(s); if err != nil { return } }
CompileEach(c, nodes) ==
  IF nodes = <<>> \/ c.err # "" THEN c
  ELSE CompileEach(Compile(c, Head(nodes)), Tail(nodes))

\* Compiler.Compile, for the nodes without jumps
Compile(c0, node) ==
  IF c0.err # "" THEN c0
  ELSE IF node.kind = "program"
    THEN CompileEach(scanSymbols(c0, node.statements), node.statements)
  ELSE
  LET c == [c0 EXCEPT !.lastLine = node.line]
  IN
  CASE node.kind = "expr" ->
         LET c1 == Compile(c, node.expression)
         IN  IF c1.err # "" THEN c1 ELSE emit(c1, OpPop, <<>>)
    [] node.kind = "int" ->
         emit([c EXCEPT !.constants = Append(@, Integer(node.v))],
              OpConstant, <<Len(c.constants)>>)
    [] node.kind = "ident" ->
         LET r == Resolve(c.st, node.name)
         IN  IF r.symbol = NoSymbol
               THEN [c EXCEPT !.err = "undefined variable " \o node.name]
               ELSE emitLoad([c EXCEPT !.st = r.st], r.symbol)
    [] node.kind = "call" ->
         LET c1 == CompileEach(Compile(c, node.function), node.arguments)
         IN  IF c1.err # "" THEN c1
             ELSE emit(c1, OpCall, <<Len(node.arguments)>>)
    [] node.kind = "infix" ->
         LET c1 == IF node.operator \in {"<", ">="}
                     THEN Compile(Compile(c, node.right), node.left)
                     ELSE Compile(Compile(c, node.left), node.right)
         IN  IF c1.err # "" THEN c1
             ELSE emitEach(c1, InfixOps(node.operator))
    [] node.kind = "return" ->
         LET c1 == IF node.value = AstNone THEN emit(c, OpNull, <<>>)
                   ELSE Compile(c, node.value)
         IN  IF c1.err # "" THEN c1 ELSE emit(c1, OpReturnValue, <<>>)
    [] node.kind = "assign" ->
         LET r == Resolve(c.st, node.name)
             c1 == Compile([c EXCEPT !.st = r.st], node.value)
             i == r.symbol.Index
         IN  IF r.symbol = NoSymbol
               THEN [c EXCEPT !.err =
                       "variable " \o node.name \o " not defined"]
             ELSE IF c1.err # "" THEN c1
             ELSE IF r.symbol.Scope = "GLOBAL"
               THEN emit(emit(c1, OpSetGlobal, <<i>>), OpGetGlobal, <<i>>)
             ELSE IF r.symbol.Scope = "LOCAL"
               THEN emit(emit(c1, OpSetLocal, <<i>>), OpGetLocal, <<i>>)
             ELSE [c1 EXCEPT !.err =
                     "assignment to " \o r.symbol.Scope \o " not supported"]
    [] node.kind = "let" ->
         LET r == IF node.id \in DOMAIN c.defs
                    THEN [st |-> c.st, symbols |-> c.defs[node.id]]
                    ELSE defineAll(c.st, node.names)
             c1 == Compile([c EXCEPT !.st = r.st], node.value)
         IN  IF c1.err # "" THEN c1
             ELSE emitStores(
                    IF Len(node.names) > 1
                      THEN emit(c1, OpDestructure, <<Len(node.names)>>)
                      ELSE c1,
                    r.symbols)
    [] node.kind = "func" ->
         LET c1 == [c EXCEPT !.scopes = Append(@, <<>>),
                             !.st = NewEnclosedSymbolTable(@)]
             c2 == [c1 EXCEPT !.st = defineAll(@, node.parameters).st]
             c3 == CompileEach(c2, node.body)
             c4 == IF lastInstructionIs(c3, OpPop)
                     THEN replaceLastPopWithReturn(c3) ELSE c3
             c5 == IF ~lastInstructionIs(c4, OpReturnValue)
                     THEN emit(c4, OpReturn, <<>>) ELSE c4
             scope == c5.st[Len(c5.st)]
             freeSymbols == scope.free
             numLocals == Len(scope.store)
             instructions == c5.scopes[Len(c5.scopes)]
             c6 == [c5 EXCEPT
                      !.scopes = SubSeq(@, 1, Len(@) - 1),
                      !.st = SubSeq(@, 1, Len(@) - 1)]
             c7 == emitFree(c6, freeSymbols)
             c8 == [c7 EXCEPT
                      !.fns = Append(@, CompiledFunction(node.name,
                                instructions, numLocals,
                                Len(node.parameters))),
                      !.constants = Append(@, FnConst(Len(c7.fns) + 1))]
         IN  IF c3.err # "" THEN c3
             ELSE emit(c8, OpClosure, <<Len(c7.constants), Len(freeSymbols)>>)

\* Compiler.Bytecode of a compiled program, with what the host calls
Bytecode(c, less, menu) ==
  [fns |-> c.fns, constants |-> c.constants,
   main |-> CompiledFunction("main", c.scopes[1], 0, 0),
   shared |-> FALSE, less |-> less, menu |-> menu]

\* 1 func A() {
\* 2   return B()
\* 3 }
\* 4 func B() {
\* 5   return 1
\* 6 }
\* 7 A()
ForwardSource ==
  AstProgram(<<
    AstDecl(1, "A", <<>>,
      <<AstReturn(AstCall(AstIdent("B", 2), <<>>, 2), 2)>>),
    AstDecl(2, "B", <<>>, <<AstReturn(AstInt(1, 5), 5)>>),
    AstExpr(AstCall(AstIdent("A", 7), <<>>, 7), 7) >>)

ForwardCompiled == Compile(NewCompiler, ForwardSource)

\* globals: A 0, B 1; when the compiler returns an error there is no
\* bytecode and the host runs nothing
ProgForward ==
  IF ForwardCompiled.err # ""
    THEN Bytecode(NewCompiler, 0, {})
    ELSE Bytecode(ForwardCompiled, 1,
           { [kind |-> "Run", g |-> 0, args |-> <<>>, ctx |-> "bg"],
             [kind |-> "Invoke", g |-> 0, args |-> <<>>, ctx |-> "bg"],
             [kind |-> "Invoke", g |-> 1, args |-> <<>>, ctx |-> "bg"] })

\*  1 func outer(x) {                  9 func shadow(x) {
\*  2   var a = x                       10   var a = x
\*  3   var get = func() { return a }   11   var set = func() {
\*  4   a = a + 1                       12     var a = 100
\*  5   var seen = get()                13     return a }
\*  6   return seen                     14   var r = set()
\*  7 }                                 15   return a
\*  8                                   16 }
\* 17 func make(x) {
\* 18   var a = x
\* 19   var g = func() { return a }
\* 20   a = a + 1
\* 21   return g
\* 22 }
\* 23 var got = make(5)
ClosureSource ==
  AstProgram(<<
    AstDecl(1, "outer", <<"x">>, <<
      AstLet(0, <<"a">>, AstIdent("x", 2), 2),
      AstLet(0, <<"get">>,
        AstFunc("", <<>>, <<AstReturn(AstIdent("a", 3), 3)>>, 3), 3),
      AstExpr(AstAssign("a",
        AstInfix("+", AstIdent("a", 4), AstInt(1, 4), 4), 4), 4),
      AstLet(0, <<"seen">>, AstCall(AstIdent("get", 5), <<>>, 5), 5),
      AstReturn(AstIdent("seen", 6), 6) >>),
    AstDecl(2, "shadow", <<"x">>, <<
      AstLet(0, <<"a">>, AstIdent("x", 10), 10),
      AstLet(0, <<"set">>,
        AstFunc("", <<>>, <<
          AstLet(0, <<"a">>, AstInt(100, 12), 12),
          AstReturn(AstIdent("a", 13), 13) >>, 11), 11),
      AstLet(0, <<"r">>, AstCall(AstIdent("set", 14), <<>>, 14), 14),
      AstReturn(AstIdent("a", 15), 15) >>),
    AstDecl(3, "make", <<"x">>, <<
      AstLet(0, <<"a">>, AstIdent("x", 18), 18),
      AstLet(0, <<"g">>,
        AstFunc("", <<>>, <<AstReturn(AstIdent("a", 19), 19)>>, 19), 19),
      AstExpr(AstAssign("a",
        AstInfix("+", AstIdent("a", 20), AstInt(1, 20), 20), 20), 20),
      AstReturn(AstIdent("g", 21), 21) >>),
    AstLet(4, <<"got">>,
      AstCall(AstIdent("make", 23), <<AstInt(5, 23)>>, 23), 23) >>)

ClosureCompiled == Compile(NewCompiler, ClosureSource)

\* the values the host passes for x
ClosureArgs == {1, 2}

\* globals: outer 0, shadow 1, make 2, got 3
ProgClosure ==
  IF ClosureCompiled.err # ""
    THEN Bytecode(NewCompiler, 0, {})
    ELSE Bytecode(ClosureCompiled, 2,
           { [kind |-> "Run", g |-> 0, args |-> <<>>, ctx |-> "bg"],
             [kind |-> "Invoke", g |-> 3, args |-> <<>>, ctx |-> "bg"] }
           \cup { [kind |-> "Invoke", g |-> g, args |-> <<Integer(x)>>,
                   ctx |-> "bg"] : g \in {0, 1}, x \in ClosureArgs })

\* 1 func bump(x) {
\* 2   var a = x
\* 3   var set = func() { a = 100 }
\* 4   set()
\* 5   return a
\* 6 }
MutatingSource ==
  AstProgram(<<
    AstDecl(1, "bump", <<"x">>, <<
      AstLet(0, <<"a">>, AstIdent("x", 2), 2),
      AstLet(0, <<"set">>,
        AstFunc("", <<>>, <<
          AstExpr(AstAssign("a", AstInt(100, 3), 3), 3) >>, 3), 3),
      AstExpr(AstCall(AstIdent("set", 4), <<>>, 4), 4),
      AstReturn(AstIdent("a", 5), 5) >>) >>)

MutatingCompiled == Compile(NewCompiler, MutatingSource)

\* no script for the bytecode VM: the host uses the tree-walking VM
ProgNone == Bytecode(NewCompiler, 0, {})

\* the operators of the functions of ProgArith, in the order of declaration,
\* and the integer operands the host passes
ArithOps == <<"+", "-", "*", "/", "%">>
ArithNames == <<"add", "sub", "mul", "div", "mod">>
ArithArgs == {<<7, 2>>, <<-7, 2>>, <<6, 3>>}

\* 1 func add(a, b) { return a + b }   ...   5 func mod(a, b) { return a % b }
\* globals: add 0, sub 1, mul 2, div 3, mod 4
ProgArith ==
  [fns |-> [k \in 1..Len(ArithOps) |->
              CompiledFunction(ArithNames[k],
                InfixExpression(0, ArithOps[k], Emit(OpGetLocal, <<0>>, k),
                                Emit(OpGetLocal, <<1>>, k), k)
                  \o Emit(OpReturnValue, <<>>, k), 2, 2)],
   constants |-> [k \in 1..Len(ArithOps) |-> FnConst(k)],
   main |-> CompiledFunction("main",
       CompileAll([k \in 1..Len(ArithOps) |->
         Emit(OpClosure, <<k - 1, 0>>, k)
           \o Emit(OpSetGlobal, <<k - 1>>, k)]), 0, 0),
   shared |-> FALSE, less |-> 2,
   menu |-> { [kind |-> "Run", g |-> 0, args |-> <<>>, ctx |-> "bg"] }
            \cup { [kind |-> "Invoke", g |-> g,
                    args |-> <<Integer(a[1]), Integer(a[2])>>,
                    ctx |-> "bg"] : g \in 0..4, a \in ArithArgs }]

\* case *ast.MapLiteral with integer literals as keys and values: first is
\* len(c.constants) on entry and keys the order in which
\* `for k := range node.Pairs` visits the pairs (Go leaves it unspecified);
\* the emits, and the constants the literals add
MapLiteral(first, pairs, keys, line) ==
  CompileAll([j \in 1..Len(keys) |->
                Emit(OpConstant, <<first + 2 * (j - 1)>>, line)
                  \o Emit(OpConstant, <<first + 2 * (j - 1) + 1>>, line)])
    \o Emit(OpHash, <<Len(pairs) * 2>>, line)

MapConstants(pairs, keys) ==
  [j \in 1..(2 * Len(keys)) |->
     Integer(pairs[keys[(j + 1) \div 2]][IF j % 2 = 1 THEN 1 ELSE 2])]

\* the map literals of ProgMap as their <<key, value>> pairs in the order
\* they are written, each the body of one function
MapNames == <<"none", "one", "twoA", "twoB", "dupA", "dupB">>
MapSources ==
  << <<>>, << <<1, 10>> >>,
     << <<1, 10>>, <<2, 20>> >>, << <<1, 10>>, <<2, 20>> >>,
     << <<1, 10>>, <<1, 20>> >>, << <<1, 10>>, <<1, 20>> >> >>

\* the orders a range over a Go map of n entries can take
RangeOrders(n) ==
  {o \in [1..n -> 1..n] : \A a, b \in 1..n : o[a] = o[b] => a = b}

\* one order for each literal of ProgMap
MapOrders ==
  {o \in [1..Len(MapSources) ->
            UNION {RangeOrders(Len(MapSources[k])) : k \in 1..Len(MapSources)}] :
     \A k \in 1..Len(MapSources) : o[k] \in RangeOrders(Len(MapSources[k]))}

\* 1 func none() { return {} }
\* 2 func one() { return {1: 10} }
\* 3 func twoA() { return {1: 10, 2: 20} }   4 func twoB() { the same }
\* 5 func dupA() { return {1: 10, 1: 20} }   6 func dupB() { the same }
\* globals: none 0, one 1, twoA 2, twoB 3, dupA 4, dupB 5
ProgMap(orders) ==
  LET n == Len(MapSources)
      \* len(c.constants) when the literal of function k is compiled
      first[k \in 1..n] ==
        IF k = 1 THEN 0 ELSE first[k - 1] + 2 * Len(MapSources[k - 1]) + 1
  IN
  [fns |-> [k \in 1..n |->
              CompiledFunction(MapNames[k],
                MapLiteral(first[k], MapSources[k], orders[k], k)
                  \o Emit(OpReturnValue, <<>>, k), 0, 0)],
   constants |->
     CompileAll([k \in 1..n |->
       MapConstants(MapSources[k], orders[k]) \o <<FnConst(k)>>]),
   main |-> CompiledFunction("main",
       CompileAll([k \in 1..n |->
         Emit(OpClosure, <<first[k] + 2 * Len(MapSources[k]), 0>>, k)
           \o Emit(OpSetGlobal, <<k - 1>>, k)]), 0, 0),
   shared |-> FALSE, less |-> 1,
   menu |-> { [kind |-> "Run", g |-> 0, args |-> <<>>, ctx |-> "bg"] }
            \cup { [kind |-> "Invoke", g |-> g, args |-> <<>>,
                    ctx |-> "bg"] : g \in 0..(n - 1) }]

\* 1 func edge() {
\* 2   var x = x
\* 3   edge()
\* 4   var v1 = null; ...; var v87 = null
\* 5 }
\* globals: edge 0.  Each activation takes 89 slots (the callee and 88
\* locals), so the 24th begins with basePointer 1 + 89 * 23 = 2048.
ProgEdge ==
  [fns |-> <<
     CompiledFunction("edge",
       LetStatement(<< <<"LOCAL", 0>> >>, Emit(OpGetLocal, <<0>>, 2), 2)
         \o CallExpression(Emit(OpGetGlobal, <<0>>, 3), <<>>, 3)
         \o Emit(OpPop, <<>>, 3)
         \o CompileAll([k \in 1..87 |->
              LetStatement(<< <<"LOCAL", k>> >>, Emit(OpNull, <<>>, 4), 4)])
         \o Emit(OpReturn, <<>>, 4), 88, 0) >>,
   constants |-> <<FnConst(1)>>,
   main |-> CompiledFunction("main",
       Emit(OpClosure, <<0, 0>>, 4) \o Emit(OpSetGlobal, <<0>>, 4), 0, 0),
   shared |-> FALSE, less |-> 2,
   menu |-> { [kind |-> "Run", g |-> 0, args |-> <<>>, ctx |-> "bg"],
              [kind |-> "Invoke", g |-> 0, args |-> <<>>, ctx |-> "bg"] }]

\* the functions of ProgIf, named after the last statement of a branch of
\* their `if`, and the integer literals each contains, in the order written
\* (the last one is the value returned)
IfNames == <<"expr", "noelse", "decl", "assign", "loop", "empty", "elsedecl">>
IfLiterals ==
  << <<10, 20, 0>>, <<10, 0>>, <<1, 20, 0>>, <<1, 20, 0>>, <<20, 0>>,
     <<20, 0>>, <<10, 1, 0>> >>

\* the `if` of function k as the opening statement of the body, its literals
\* being the constants from index b on: the emits of the condition and of the
\* two blocks (each statement compiled by its own case of Compile), and the
\* locals of the function
IfParts(k, b) ==
  LET lit(i) == Emit(OpConstant, <<i>>, k) \o Emit(OpPop, <<>>, k)
      decl(i) == LetStatement(<< <<"LOCAL", 1>> >>,
                              Emit(OpConstant, <<i>>, k), k)
      assign(i) == Emit(OpConstant, <<i>>, k) \o Emit(OpSetLocal, <<0>>, k)
                     \o Emit(OpGetLocal, <<0>>, k) \o Emit(OpPop, <<>>, k)
      loop == ForStatement(5, <<>>, Emit(OpFalse, <<>>, k), <<>>, <<>>, k)
      parts(cons, hasAlt, alt, numLocals) ==
        [cons |-> cons, hasAlt |-> hasAlt, alt |-> alt,
         numLocals |-> numLocals]
      name == IfNames[k]
  IN  CASE name = "expr" -> parts(lit(b), TRUE, lit(b + 1), 1)
        [] name = "noelse" -> parts(lit(b), FALSE, <<>>, 1)
        [] name = "decl" -> parts(decl(b), TRUE, lit(b + 1), 2)
        [] name = "assign" -> parts(assign(b), TRUE, lit(b + 1), 1)
        [] name = "loop" -> parts(loop, TRUE, lit(b), 1)
        [] name = "empty" -> parts(<<>>, TRUE, lit(b), 1)
        [] name = "elsedecl" -> parts(lit(b), TRUE, decl(b + 1), 2)

\* the emits of the `if` of function k
IfOf(k, b) ==
  LET p == IfParts(k, b)
  IN  IfExpression(0, Emit(OpGetLocal, <<0>>, k), p.cons, p.hasAlt, p.alt, k)

\* 1 func expr(x) { if x { 10 } else { 20 }; return 0 }
\* 2 func noelse(x) { if x { 10 }; return 0 }
\* 3 func decl(x) { if x { var y = 1 } else { 20 }; return 0 }
\* 4 func assign(x) { if x { x = 1 } else { 20 }; return 0 }
\* 5 func loop(x) { if x { for false { } } else { 20 }; return 0 }
\* 6 func empty(x) { if x { } else { 20 }; return 0 }
\* 7 func elsedecl(x) { if x { 10 } else { var y = 1 }; return 0 }
\* globals: expr 0, ..., elsedecl 6
ProgIf ==
  LET n == Len(IfNames)
      \* len(c.constants) when function k is compiled
      first[k \in 1..n] ==
        IF k = 1 THEN 0 ELSE first[k - 1] + Len(IfLiterals[k - 1]) + 1
  IN
  [fns |-> [k \in 1..n |->
              CompiledFunction(IfNames[k],
                IfOf(k, first[k])
                  \o Emit(OpPop, <<>>, k)
                  \o Emit(OpConstant,
                          <<first[k] + Len(IfLiterals[k]) - 1>>, k)
                  \o Emit(OpReturnValue, <<>>, k),
                IfParts(k, first[k]).numLocals, 1)],
   constants |->
     CompileAll([k \in 1..n |->
       [j \in 1..Len(IfLiterals[k]) |-> Integer(IfLiterals[k][j])]
         \o <<FnConst(k)>>]),
   main |-> CompiledFunction("main",
       CompileAll([k \in 1..n |->
         Emit(OpClosure, <<first[k] + Len(IfLiterals[k]), 0>>, k)
           \o Emit(OpSetGlobal, <<k - 1>>, k)]), 0, 0),
   shared |-> FALSE, less |-> 2,
   menu |-> { [kind |-> "Run", g |-> 0, args |-> <<>>, ctx |-> "bg"] }
            \cup { [kind |-> "Invoke", g |-> g, args |-> <<x>>,
                    ctx |-> "bg"] : g \in 0..(n - 1), x \in {True, False} }]

\* The host defines the symbol probe before compiling and puts a builtin of
\* its own in that global (examples/02_interop).
\* 1 func ask() { return probe() }
\* 2 probe()
\* globals: probe 0, ask 1
ProgHost ==
  [fns |-> <<
     CompiledFunction("ask",
       << <<OpGetGlobal, <<0>>, 1>>, <<OpCall, <<0>>, 1>>,
          <<OpReturnValue, <<>>, 1>> >>, 0, 0) >>,
   constants |-> <<FnConst(1)>>,
   main |-> CompiledFunction("main",
       << <<OpClosure, <<0, 0>>, 1>>, <<OpSetGlobal, <<1>>, 1>>,
          <<OpGetGlobal, <<0>>, 2>>, <<OpCall, <<0>>, 2>>,
          <<OpPop, <<>>, 2>> >>, 0, 0),
   shared |-> TRUE, less |-> 1,
   menu |-> { [kind |-> "Run", g |-> 0, args |-> <<>>, ctx |-> "bg"],
              [kind |-> "Invoke", g |-> 1, args |-> <<>>, ctx |-> "bg"] }]

\* the values on which truthiness is defined, the booleans also as objects
\* the host makes (&object.Boolean{Value: b}, as test_isrunning returns)
TruthValues ==
  {True, False, HostBoolean(TRUE, 1), HostBoolean(FALSE, 1), Null,
   Integer(0), Integer(3), Float(0), Float(1), Str(""), Str("a")}

\* 1 func cond(x) { if (x) { print("then") } else { print("else") }
\* 2                return 0 }
\* 3 func not(x) { return !x }
\* globals: cond 0, not 1
ProgBang ==
  LET x(line) == Emit(OpGetLocal, <<0>>, line)
  IN
  [fns |-> <<
     CompiledFunction("cond",
       IfExpression(0, x(1), PrintStatement(0, 1), TRUE,
                    PrintStatement(1, 1), 1)
         \o Emit(OpPop, <<>>, 1)
         \o Emit(OpConstant, <<2>>, 2) \o Emit(OpReturnValue, <<>>, 2),
       1, 1),
     CompiledFunction("not",
       x(3) \o Emit(OpBang, <<>>, 3) \o Emit(OpReturnValue, <<>>, 3),
       1, 1) >>,
   constants |-> <<Str("then"), Str("else"), Integer(0), FnConst(1),
                   FnConst(2)>>,
   main |-> CompiledFunction("main",
       Emit(OpClosure, <<3, 0>>, 2) \o Emit(OpSetGlobal, <<0>>, 2)
         \o Emit(OpClosure, <<4, 0>>, 3) \o Emit(OpSetGlobal, <<1>>, 3),
       0, 0),
   shared |-> FALSE, less |-> 1,
   menu |-> { [kind |-> "Run", g |-> 0, args |-> <<>>, ctx |-> "bg"] }
            \cup { [kind |-> "Invoke", g |-> g, args |-> <<v>>,
                    ctx |-> "bg"] : g \in 0..1, v \in TruthValues }]

\* the values the host passes to be stored: tuples of every length, one
\* whose first element is a tuple
StoredValues ==
  {Integer(7), Tuple(<<>>), Tuple(<<Integer(4)>>),
   Tuple(<<Integer(1), Integer(2)>>),
   Tuple(<<Tuple(<<Integer(1), Integer(2)>>), Integer(3)>>)}

\* 1 var a = testMultiReturn(10, 20)
\* 2 func first() { var b = testMultiReturn(10, 20); return b + 5 }
\* 3 func nested() { var c = testMultiReturn(testMultiReturn(10, 20), 30)
\* 4                 return c + 5 }
\* 5 func keep(x) { var d = x; return d }
\* globals: a 0, first 1, nested 2, keep 3
ProgTuple ==
  LET pair(y, z, line) ==
        CallExpression(Emit(OpGetBuiltin, <<BuiltinTestMultiReturn>>, line),
                       <<y, z>>, line)
      const(k, line) == Emit(OpConstant, <<k>>, line)
      plus5(const5, line) ==
        InfixExpression(0, "+", Emit(OpGetLocal, <<0>>, line),
                        const(const5, line), line)
          \o Emit(OpReturnValue, <<>>, line)
  IN
  [fns |-> <<
     CompiledFunction("first",
       LetStatement(<< <<"LOCAL", 0>> >>,
                    pair(const(2, 2), const(3, 2), 2), 2)
         \o plus5(4, 2), 1, 0),
     CompiledFunction("nested",
       LetStatement(<< <<"LOCAL", 0>> >>,
                    pair(pair(const(6, 3), const(7, 3), 3), const(8, 3), 3),
                    3)
         \o plus5(9, 4), 1, 0),
     CompiledFunction("keep",
       LetStatement(<< <<"LOCAL", 1>> >>, Emit(OpGetLocal, <<0>>, 5), 5)
         \o Emit(OpGetLocal, <<1>>, 5) \o Emit(OpReturnValue, <<>>, 5),
       2, 1) >>,
   constants |-> <<Integer(10), Integer(20), Integer(10), Integer(20),
                   Integer(5), FnConst(1), Integer(10), Integer(20),
                   Integer(30), Integer(5), FnConst(2), FnConst(3)>>,
   main |-> CompiledFunction("main",
       LetStatement(<< <<"GLOBAL", 0>> >>,
                    pair(const(0, 1), const(1, 1), 1), 1)
         \o Emit(OpClosure, <<5, 0>>, 2) \o Emit(OpSetGlobal, <<1>>, 2)
         \o Emit(OpClosure, <<10, 0>>, 4) \o Emit(OpSetGlobal, <<2>>, 4)
         \o Emit(OpClosure, <<11, 0>>, 5) \o Emit(OpSetGlobal, <<3>>, 5),
       0, 0),
   shared |-> FALSE, less |-> 1,
   menu |-> { [kind |-> "Run", g |-> 0, args |-> <<>>, ctx |-> "bg"],
              [kind |-> "Invoke", g |-> 1, args |-> <<>>, ctx |-> "bg"],
              [kind |-> "Invoke", g |-> 2, args |-> <<>>, ctx |-> "bg"] }
            \cup { [kind |-> "Invoke", g |-> 3, args |-> <<x>>,
                    ctx |-> "bg"] : x \in StoredValues }]

\* The script of the host loop of SPEC.md 4.4: the host runs it once and
\* invokes onTick with the elapsed time, passing the same token every time.
\* 1 func onTick(delta) {
\* 2   return delta + 1
\* 3 }
\* globals: onTick 0
ProgTick ==
  [fns |-> <<
     CompiledFunction("onTick",
       << <<OpGetLocal, <<0>>, 2>>, <<OpConstant, <<1>>, 2>>,
          <<OpAdd, <<>>, 2>>, <<OpReturnValue, <<>>, 2>> >>, 1, 1) >>,
   constants |-> <<FnConst(1), Integer(1)>>,
   main |-> CompiledFunction("main",
       << <<OpClosure, <<0, 0>>, 2>>, <<OpSetGlobal, <<0>>, 2>> >>, 0, 0),
   shared |-> FALSE, less |-> 1,
   menu |-> { [kind |-> "Run", g |-> 0, args |-> <<>>, ctx |-> "bg"],
              [kind |-> "Invoke", g |-> 0, args |-> <<Integer(16)>>,
               ctx |-> "tok"] }]

Programs ==
  <<ProgCalls, ProgInc, ProgLeftover, ProgLoops, ProgErrors, ProgTop,
    ProgDeep, ProgOrder, ProgCond, ProgEq, ProgDestructure, ProgPanic,
    ProgForward, ProgClosure, ProgNone, ProgArith,
    ProgMap([k \in 1..Len(MapSources) |->
               [j \in 1..Len(MapSources[k]) |-> j]]),
    ProgEdge, ProgIf, ProgTick, ProgHost, ProgBang, ProgTuple>>

\* the builds of a script: the bytecode each run of the compiler may produce
Builds(p) ==
  IF p = 17 THEN {ProgMap(o) : o \in MapOrders}
  ELSE {Programs[p]}

(***************************************************************************)
(* State.                                                                  *)
(***************************************************************************)
VARIABLES
  prog,         \* the script loaded into the VM (index into Programs)
  bytecode,     \* the compiler.Bytecode the VM was made from: Programs[prog]
  stack,        \* VM.stack
  sp,           \* VM.sp
  globals,      \* VM.globals
  frames,       \* VM.frames
  framesIndex,  \* VM.framesIndex
  lastPopped,   \* VM.lastPopped
  output,       \* the lines written to VM.output, in order
  printPrefix,  \* VM.printPrefix
  mu,           \* VM.mu: the thread holding the lock, NoThread when free
  cancelled,    \* the host's cancellation token: ctx.Done() is closed
  ctxStore,     \* VM.ctxStore
  access,       \* history: the accessor calls the host threads have made
  tree,         \* history: the calls made on the tree-walking VM
  pc,           \* per host thread: "idle", "running" (inside run()),
                \* "locking" (inside a host builtin, at the vm.mu.Lock() of
                \* an accessor) or "unlocked" (the accessor returned)
  call,         \* per host thread: the Run/Invoke call it is executing
  opsCount,     \* per host thread: the local opsCount of its run()
  crashed,      \* a Go panic left Run/Invoke and ended the process
  ncalls,       \* calls started so far
  log,          \* history: the completed calls, in order of completion
  since,        \* history: per thread, instructions fetched by its call
                \* since the token was triggered
  chain         \* history: per thread, the functions entered and not yet
                \* returned from in its call, outermost first

vars ==
  <<prog, bytecode, stack, sp, globals, frames, framesIndex, lastPopped, output,
    printPrefix, mu, cancelled, pc, call, opsCount, crashed, ncalls, log,
    since, chain, ctxStore, access, tree>>

Prog == bytecode

(***************************************************************************)
(* The VM as a value: the fields run() reads and writes, the status st of  *)
(* the run ("ok" while the loop goes on, "done" return nil, "rterr" a      *)
(* runtime error, "cancel" ctx.Err(), "panic" a Go run-time panic) and the *)
(* error it returns.                                                       *)
(***************************************************************************)
NoErr == [msg |-> <<>>, fn |-> "", line |-> 0, trace |-> <<>>]

VmState ==
  [stack |-> stack, sp |-> sp, globals |-> globals, frames |-> frames,
   framesIndex |-> framesIndex, lastPopped |-> lastPopped,
   output |-> output, printPrefix |-> printPrefix,
   st |-> "ok", err |-> NoErr]

\* a[i] of a Go slice kept as its written prefix
At(a, i) == IF i + 1 <= Len(a) THEN a[i + 1] ELSE Nil
\* a[i] = o
Put(a, i, o) ==
  IF i + 1 <= Len(a) THEN [a EXCEPT ![i + 1] = o]
  ELSE IF i = Len(a) THEN Append(a, o)
  ELSE [k \in 1..(i + 1) |->
          IF k = i + 1 THEN o ELSE IF k <= Len(a) THEN a[k] ELSE Nil]

\* the index is inside the value stack (Go panics otherwise)
InStack(i) == i >= 0 /\ i < StackSize

\* a Go run-time panic (index out of range, on vm.stack or on vm.frames, nil
\* dereference, integer divide by zero): it unwinds run() and its caller
GoPanic(m, what) ==
  [m EXCEPT !.st = "panic", !.err = [NoErr EXCEPT !.msg = <<what>>]]

\* NewFrame
NewFrame(cl, basePointer) == [cl |-> cl, ip |-> -1, basePointer |-> basePointer]

\* the CompiledFunction a closure points to (0 is the main function New
\* builds from the bytecode)
FnOf(cl) == IF cl.v = 0 THEN Prog.main ELSE Prog.fns[cl.v]

\* VM.currentFrame, for framesIndex >= 1
currentFrame(m) == m.frames[m.framesIndex]

\* vm.currentFrame().ip = ip
SetIp(m, ip) == [m EXCEPT !.frames[m.framesIndex].ip = ip]

\* translateIPToLine
translateIPToLine(sourceMap, ip) ==
  LET hits == {i \in 0..9 : ip - i >= 0 /\ ip - i < Len(sourceMap)
                            /\ sourceMap[ip - i + 1] > 0}
  IN  IF hits = {} THEN 0
      ELSE LET i == CHOOSE h \in hits : \A k \in hits : h <= k
           IN  sourceMap[ip - i + 1]

\* the name newRuntimeError prints for a frame
TraceName(f) == IF FnOf(f.cl).Name = "" THEN "anonymous" ELSE FnOf(f.cl).Name

\* the StackTrace newRuntimeError collects: frames framesIndex-1 down to 0
StackTraceOf(m) ==
  [k \in 1..m.framesIndex |->
     LET f == m.frames[m.framesIndex + 1 - k]
     IN  [name |-> TraceName(f),
          line |-> translateIPToLine(FnOf(f.cl).SourceMap, f.ip)]]

\* VM.newRuntimeError
newRuntimeError(m, msg) ==
  IF m.framesIndex - 1 < 0 THEN GoPanic(m, "frames: index out of range")
  ELSE LET cf == currentFrame(m)
       IN  [m EXCEPT !.st = "rterr",
                     !.err = [msg |-> msg, fn |-> FnOf(cf.cl).Name,
                              line |-> translateIPToLine(FnOf(cf.cl).SourceMap,
                                                        cf.ip),
                              trace |-> StackTraceOf(m)]]

\* return vm.newRuntimeError(msg): the opcode stops here; run() builds the
\* error from the state the opcode left (see RunIteration)
Raise(m, msg) == [m EXCEPT !.st = "raise", !.err = [NoErr EXCEPT !.msg = msg]]

\* the error run() returns for an opcode that stopped in Raise
Raised(m) ==
  IF m.st = "raise" THEN newRuntimeError([m EXCEPT !.st = "ok"], m.err.msg)
  ELSE m

\* a push that does not look at the capacity
pushUnchecked(m, o) ==
  [m |-> [m EXCEPT !.stack = Put(m.stack, m.sp, o), !.sp = m.sp + 1],
   err |-> FALSE]

\* VM.push: the error result and the state it leaves
push(m, o) ==
  IF m.sp >= StackSize THEN [m |-> m, err |-> TRUE]
  ELSE [m |-> [m EXCEPT !.stack = Put(m.stack, m.sp, o), !.sp = m.sp + 1],
        err |-> FALSE]

\* err := vm.push(o); if err != nil { return vm.newRuntimeError(...) }
Push(m, o) ==
  LET r == push(m, o)
  IN  IF r.err THEN Raise(r.m, <<"stack overflow">>)
      ELSE IF ~InStack(m.sp) THEN GoPanic(m, "stack: index out of range")
      ELSE r.m

\* the object VM.pop returns
Top(m) == At(m.stack, m.sp - 1)

\* VM.pop: the state it leaves
pop(m) ==
  IF ~InStack(m.sp - 1) THEN GoPanic(m, "stack: index out of range")
  ELSE [m EXCEPT !.sp = m.sp - 1]

\* VM.StackTop
StackTop(m) == IF m.sp = 0 THEN Nil ELSE At(m.stack, m.sp - 1)

\* unwrapTuple, when tuple.Elements[0] exists
unwrapTuple(o) == IF o.t = "TUPLE" THEN o.elems[1] ELSE o

\* unwrapTuple: tuple.Elements[0] of a tuple without elements is a Go
\* run-time panic
unwrapPanics(o) == o.t = "TUPLE" /\ o.elems = <<>>

\* Go's integer division and remainder truncate toward zero
GoDiv(a, b) ==
  LET q == (IF a < 0 THEN -a ELSE a) \div (IF b < 0 THEN -b ELSE b)
  IN  IF (a < 0) = (b < 0) THEN q ELSE -q
GoMod(a, b) == a - b * GoDiv(a, b)

\* VM.executeBinaryIntegerOperation, on the state left by the two pops
executeBinaryIntegerOperation(m, op, left, right) ==
  CASE op = OpAdd -> Push(m, Integer(left.v + right.v))
    [] op = OpSub -> Push(m, Integer(left.v - right.v))
    [] op = OpMul -> Push(m, Integer(left.v * right.v))
    [] op = OpDiv ->
         IF right.v = 0 THEN GoPanic(m, "integer divide by zero")
         ELSE Push(m, Integer(GoDiv(left.v, right.v)))
    [] op = OpMod ->
         IF right.v = 0 THEN GoPanic(m, "integer divide by zero")
         ELSE Push(m, Integer(GoMod(left.v, right.v)))
    [] OTHER -> Raise(m, <<"unknown integer operator">>)

\* VM.executeBinaryOperation
executeBinaryOperation(m, op) ==
  LET right == Top(m)
      m1 == pop(m)
      left == Top(m1)
      m2 == pop(m1)
  IN  IF m1.st # "ok" THEN m1
      ELSE IF m2.st # "ok" THEN m2
      ELSE IF left.t = "nil" \/ right.t = "nil"
        THEN GoPanic(m2, "nil pointer dereference")
      ELSE IF left.t = "INTEGER" /\ right.t = "INTEGER"
        THEN executeBinaryIntegerOperation(m2, op, left, right)
      ELSE Raise(m2,
             <<"unsupported types for binary operation", left.t, right.t>>)

\* nativeBoolToBooleanObject
nativeBoolToBooleanObject(b) == IF b THEN True ELSE False

\* isPrimitive
isPrimitive(t) == t \in {"INTEGER", "FLOAT", "BOOLEAN", "NULL", "STRING"}

\* VM.executeComparison with executeIntegerComparison and
\* executeStringComparison
executeComparison(m, op) ==
  LET right == Top(m)
      m1 == pop(m)
      left == Top(m1)
      m2 == pop(m1)
  IN  IF m1.st # "ok" THEN m1
      ELSE IF m2.st # "ok" THEN m2
      ELSE IF left.t = "nil" \/ right.t = "nil"
        THEN GoPanic(m2, "nil pointer dereference")
      ELSE IF left.t = "INTEGER" /\ right.t = "INTEGER" THEN
        CASE op = OpEqual ->
               Push(m2, nativeBoolToBooleanObject(left.v = right.v))
          [] op = OpNotEqual ->
               Push(m2, nativeBoolToBooleanObject(left.v # right.v))
          [] op = OpGreaterThan ->
               Push(m2, nativeBoolToBooleanObject(left.v > right.v))
          [] OTHER -> Raise(m2, <<"unknown operator">>)
      ELSE IF left.t = "FLOAT" /\ right.t = "FLOAT" THEN
        CASE op = OpEqual ->
               Push(m2, nativeBoolToBooleanObject(left.v = right.v))
          [] op = OpNotEqual ->
               Push(m2, nativeBoolToBooleanObject(left.v # right.v))
          [] op = OpGreaterThan ->
               Push(m2, nativeBoolToBooleanObject(left.v > right.v))
          [] OTHER -> Raise(m2, <<"unknown operator">>)
      ELSE IF left.t = "STRING" /\ right.t = "STRING" THEN
        CASE op = OpEqual ->
               Push(m2, nativeBoolToBooleanObject(left.s = right.s))
          [] op = OpNotEqual ->
               Push(m2, nativeBoolToBooleanObject(left.s # right.s))
          [] OTHER -> Raise(m2, <<"unknown operator">>)
      ELSE IF isPrimitive(left.t) /\ isPrimitive(right.t) THEN
        \* right == left compares the two interface values: same instance
        CASE op = OpEqual ->
               Push(m2, nativeBoolToBooleanObject(right = left))
          [] op = OpNotEqual ->
               Push(m2, nativeBoolToBooleanObject(right # left))
          [] OTHER -> Raise(m2, <<"unknown operator">>)
      ELSE IF left.t # right.t
        THEN Raise(m2, <<"type mismatch", left.t, right.t>>)
      ELSE Raise(m2, <<"equality not supported for type", left.t>>)

\* VM.executeBangOperator
executeBangOperator(m) ==
  LET operand == unwrapTuple(Top(m))
      m1 == pop(m)
  IN  IF m1.st # "ok" THEN m1
      ELSE IF unwrapPanics(Top(m))
        THEN GoPanic(m1, "tuple: index out of range")
      ELSE IF operand = True THEN Push(m1, False)
      ELSE IF operand = False THEN Push(m1, True)
      ELSE IF operand = Null THEN Push(m1, True)
      ELSE Push(m1, False)

\* VM.executeMinusOperator
executeMinusOperator(m) ==
  LET operand == Top(m)
      m1 == pop(m)
  IN  IF m1.st # "ok" THEN m1
      ELSE IF operand.t = "nil" THEN GoPanic(m1, "nil pointer dereference")
      ELSE IF operand.t = "INTEGER" THEN Push(m1, Integer(-operand.v))
      ELSE Raise(m1, <<"unsupported type for negation", operand.t>>)

\* only false and null are falsy
isTruthyNonNull(o) ==
  CASE o.t = "BOOLEAN" -> o.v # 0
    [] o.t = "NULL" -> FALSE
    [] OTHER -> TRUE

\* isTruthy: the boolean it returns, for the types it accepts
isTruthy(o) ==
  CASE o.t = "BOOLEAN" -> o.v # 0
    [] o.t = "NULL" -> FALSE
    [] o.t = "INTEGER" -> o.v # 0
    [] o.t = "FLOAT" -> o.v # 0
    [] o.t = "STRING" -> o.s # ""
    [] OTHER -> FALSE

\* every object is accepted as a condition
isTruthyLenient(o) == FALSE

\* isTruthy returns an error for every other type
isTruthyErr(o) == o.t \notin {"BOOLEAN", "NULL", "INTEGER", "FLOAT", "STRING"}

\* Object.Inspect
Inspect(o) ==
  CASE o.t = "STRING" -> o.s
    [] o.t = "INTEGER" -> ToString(o.v)
    [] o.t = "BOOLEAN" -> IF o.v = 1 THEN "true" ELSE "false"
    [] o.t = "NULL" -> "null"
    [] OTHER -> o.t

\* the line the builtin print writes: the prefix when it is not empty,
\* then the Inspect of each argument
PrintLine(prefix, args) ==
  (IF prefix # "" THEN <<prefix>> ELSE <<>>)
    \o [k \in 1..Len(args) |-> Inspect(args[k])]

\* what object.Builtins[i].Builtin.Fn writes to ctx.Writer()
BuiltinWrites(m, i, args) ==
  IF i = BuiltinPrint THEN Append(m.output, PrintLine(m.printPrefix, args))
  ELSE m.output

\* fmt.Sprintf("wrong number of arguments. got=%d, want=%d", got, want)
WrongArgs(got, want) ==
  "wrong number of arguments. got=" \o ToString(got) \o ", want="
    \o ToString(want)

\* object.Builtins[i].Builtin.Fn applied to the arguments (the source
\* writes the name len of the second message between backquotes)
CallBuiltin(i, args) ==
  CASE i = BuiltinLen ->
         IF Len(args) # 1 THEN Critical(WrongArgs(Len(args), 1))
         ELSE IF args[1].t = "STRING" THEN Integer(Len(args[1].s))
         ELSE IF args[1].t = "ARRAY" THEN Integer(Len(args[1].elems))
         ELSE Critical("argument to 'len' not supported, got " \o args[1].t)
    [] i = BuiltinPanic ->
         IF Len(args) # 1 THEN Critical(WrongArgs(Len(args), 1))
         ELSE Panic(Inspect(args[1]))
    [] i = BuiltinTestMultiReturn ->
         IF Len(args) # 2 THEN Critical(WrongArgs(Len(args), 2))
         ELSE Obj("TUPLE", 0, "", args, 0)
    [] OTHER -> Null

\* only a Panic ends the call
IsPanicOnly(result) == result.t = "PANIC"

\* case *object.Builtin: result is a *object.Panic or a *object.Critical
IsSentinel(result) == result.t = "PANIC" \/ result.t = "CRITICAL"

\* VM.pushFrame: the error result
pushFrameErr(m) == m.framesIndex >= MaxFrames

\* VM.pushFrame: the state it leaves when it succeeds
pushFrame(m, f) ==
  [m EXCEPT !.frames = Put(m.frames, m.framesIndex, f),
            !.framesIndex = m.framesIndex + 1]

\* VM.popFrame: the state it leaves (the frame it returns is the current one)
popFrame(m) == [m EXCEPT !.framesIndex = m.framesIndex - 1]

\* case opcode.OpCall, after the operand is read and ip advanced
ExecCall(m, numArgs) ==
  IF ~InStack(m.sp - 1 - numArgs) THEN GoPanic(m, "stack: index out of range")
  ELSE
    LET callee == At(m.stack, m.sp - 1 - numArgs)
    IN  CASE callee.t = "CLOSURE" ->
               IF numArgs # FnOf(callee).NumParameters
                 THEN Raise(m, <<"wrong number of arguments">>)
               ELSE IF pushFrameErr(m)
                 THEN Raise(m, <<"stack overflow">>)
               ELSE LET frame == NewFrame(callee, m.sp - numArgs)
                        m1 == pushFrame(m, frame)
                    IN  [m1 EXCEPT !.sp = frame.basePointer
                                          + FnOf(callee).NumLocals]
          [] callee.t = "BUILTIN" ->
               LET args == [k \in 1..numArgs |->
                              At(m.stack, m.sp - numArgs + k - 1)]
                   result == CallBuiltin(callee.v, args)
                   m1 == [m EXCEPT !.sp = m.sp - numArgs - 1,
                                   !.output = BuiltinWrites(m, callee.v, args)]
               IN  IF IsSentinel(result)
                     THEN Raise(m1, <<result.s>>)
                   ELSE IF result.t = "nil" THEN push(m1, Null).m
                   ELSE push(m1, result).m
          [] OTHER -> Raise(m, <<"calling non-function">>)

\* the frame pointer is set for the caller: sp = frame.basePointer - 1
\* the callee's slot left on the stack
ReturnSpKeepsCallee(frame) == frame.basePointer

ReturnSp(frame) == frame.basePointer - 1

\* case opcode.OpReturnValue and case opcode.OpReturn, given the value
\* returned and the state after it was taken from the stack
ExecReturn(m, returnValue) ==
  LET m1 == [m EXCEPT !.lastPopped = returnValue]
  IN  IF m1.framesIndex = 1
        THEN [popFrame(m1) EXCEPT !.st = "done"]
      ELSE LET frame == currentFrame(m1)
               m2 == popFrame(m1)
           IN  Push([m2 EXCEPT !.sp = ReturnSp(frame)], returnValue)

\* the free values are taken one slot too low
pushClosureShifted(m, constIndex, numFree) ==
  LET constant == At(Prog.constants, constIndex)
      free == [i \in 1..numFree |-> At(m.stack, m.sp - numFree + i - 2)]
  IN  Push([m EXCEPT !.sp = m.sp - numFree], Closure(constant.v, free))

\* VM.pushClosure
pushClosure(m, constIndex, numFree) ==
  LET constant == At(Prog.constants, constIndex)
  IN  IF constant.t # "COMPILED_FUNCTION"
        THEN Raise(m, <<"not a function">>)
      ELSE LET free == [i \in 1..numFree |->
                          At(m.stack, m.sp - numFree + i - 1)]
               m1 == [m EXCEPT !.sp = m.sp - numFree]
           IN  Push(m1, Closure(constant.v, free))

\* the operands of the instruction at ip lie inside ins (Go panics on a
\* slice out of range otherwise)
OperandsFit(ins, ip, op) ==
  LET w == OperandWidths(op)
      n == IF Len(w) = 0 THEN 0
           ELSE IF Len(w) = 1 THEN w[1] ELSE w[1] + w[2]
  IN  ip + n <= Len(ins) - 1

\* a store that is lost once the slot holds a value
StoreGlobalOnce(m, globalIndex, o) ==
  IF At(m.globals, globalIndex) # Nil THEN m
  ELSE [m EXCEPT !.globals = Put(m.globals, globalIndex, unwrapTuple(o))]

\* OpSetGlobal: vm.globals[globalIndex] = unwrapTuple(o)
StoreGlobal(m, globalIndex, o) ==
  IF unwrapPanics(o) THEN GoPanic(m, "tuple: index out of range")
  ELSE [m EXCEPT !.globals = Put(m.globals, globalIndex, unwrapTuple(o))]

\* the types that implement object.Hashable
Hashable(o) == o.t \in {"INTEGER", "FLOAT", "BOOLEAN", "STRING"}

\* hashedPairs[hashKey.HashKey()] = pair, for keys of one type: a Hash is
\* kept as its pairs in the order their keys were first written (a Go map
\* has no order: two hashes are the same when their pairs are)
RECURSIVE PutPair(_, _)
PutPair(pairs, pair) ==
  IF pairs = <<>> THEN <<pair>>
  ELSE IF Head(pairs).Key.t = pair.Key.t /\ Head(pairs).Key.v = pair.Key.v
            /\ Head(pairs).Key.s = pair.Key.s
    THEN <<pair>> \o Tail(pairs)
  ELSE <<Head(pairs)>> \o PutPair(Tail(pairs), pair)

RECURSIVE buildHash(_, _, _, _)
\* VM.buildHash, from the pairs built so far: the Hash, or the type of the
\* first key that is not Hashable
buildHash(m, startIndex, endIndex, pairs) ==
  IF ~(startIndex < endIndex)
    THEN [hash |-> Obj("HASH", 0, "", pairs, 0), err |-> ""]
  ELSE LET key == At(m.stack, startIndex)
           value == At(m.stack, startIndex + 1)
       IN  IF ~Hashable(key) THEN [hash |-> Nil, err |-> key.t]
           ELSE buildHash(m, startIndex + 2, endIndex,
                          PutPair(pairs, [Key |-> key, Value |-> value]))

\* the switch of VM.run for the opcode op fetched at offset ip of ins
RECURSIVE PushEach(_, _)
\* for i := 0; i < numElements; i++ { vm.push(tuple.Elements[i]) }, the
\* loop left at the first error
PushEach(m, elements) ==
  IF elements = <<>> THEN m
  ELSE LET m1 == Push(m, Head(elements))
       IN  IF m1.st # "ok" THEN m1 ELSE PushEach(m1, Tail(elements))

\* the elements pushed last to first
TupleReversed(elements, numElements) ==
  [k \in 1..numElements |-> elements[numElements + 1 - k]]

\* case opcode.OpDestructure: tuple.Elements[0 .. numElements-1]
TupleFirst(elements, numElements) == SubSeq(elements, 1, numElements)

\* every scalar stands for a tuple of any size
ScalarAlways(numElements) == TRUE

\* case opcode.OpDestructure: a scalar is treated as a single element
ScalarFits(numElements) == numElements = 1

ExecOp(m, op, ip, ins) ==
  IF ~OperandsFit(ins, ip, op) THEN GoPanic(m, "slice bounds out of range")
  ELSE
  CASE op = OpConstant ->
         LET constIndex == ReadUint16(ins, ip + 1)
         IN  Push(SetIp(m, ip + 2), At(Prog.constants, constIndex))
    [] op = OpPop -> pop(m)
    [] op = OpDup -> Push(m, StackTop(m))
    [] op \in {OpAdd, OpSub, OpMul, OpDiv, OpMod} ->
         executeBinaryOperation(m, op)
    [] op \in {OpEqual, OpNotEqual, OpGreaterThan} ->
         executeComparison(m, op)
    [] op = OpBang -> executeBangOperator(m)
    [] op = OpMinus -> executeMinusOperator(m)
    [] op = OpTrue -> Push(m, True)
    [] op = OpFalse -> Push(m, False)
    [] op = OpNull -> Push(m, Null)
    [] op = OpJump ->
         LET pos == ReadUint16(ins, ip + 1)
         IN  SetIp(m, pos - 1)
    [] op = OpJumpNotTruthy ->
         LET pos == ReadUint16(ins, ip + 1)
             m1 == SetIp(m, ip + 2)
             condition == Top(m1)
             m2 == pop(m1)
         IN  IF m2.st # "ok" THEN m2
             ELSE IF condition.t = "nil"
               THEN GoPanic(m2, "nil pointer dereference")
             ELSE IF isTruthyErr(condition)
               THEN Raise(m2,
                      <<"condition must be boolean, got", condition.t>>)
             ELSE IF ~isTruthy(condition) THEN SetIp(m2, pos - 1)
             ELSE m2
    [] op = OpSetGlobal ->
         LET globalIndex == ReadUint16(ins, ip + 1)
             m1 == SetIp(m, ip + 2)
             o == Top(m1)
             m2 == pop(m1)
         IN  IF m2.st # "ok" THEN m2
             ELSE StoreGlobal(m2, globalIndex, o)
    [] op = OpGetGlobal ->
         LET globalIndex == ReadUint16(ins, ip + 1)
         IN  Push(SetIp(m, ip + 2), At(m.globals, globalIndex))
    [] op = OpSetLocal ->
         LET localIndex == ReadUint8(ins, ip + 1)
             m1 == SetIp(m, ip + 1)
             frame == currentFrame(m1)
             o == Top(m1)
             m2 == pop(m1)
         IN  IF m2.st # "ok" THEN m2
             ELSE IF ~InStack(frame.basePointer + localIndex)
               THEN GoPanic(m2, "stack: index out of range")
             ELSE IF unwrapPanics(o)
               THEN GoPanic(m2, "tuple: index out of range")
             ELSE [m2 EXCEPT !.stack =
                     Put(m2.stack, frame.basePointer + localIndex,
                         unwrapTuple(o))]
    [] op = OpGetLocal ->
         LET localIndex == ReadUint8(ins, ip + 1)
             m1 == SetIp(m, ip + 1)
             frame == currentFrame(m1)
         IN  IF ~InStack(frame.basePointer + localIndex)
               THEN GoPanic(m1, "stack: index out of range")
             ELSE Push(m1, At(m1.stack, frame.basePointer + localIndex))
    [] op = OpCall ->
         ExecCall(SetIp(m, ip + 1), ReadUint8(ins, ip + 1))
    [] op = OpReturnValue ->
         LET returnValue == Top(m)
             m1 == pop(m)
         IN  IF m1.st # "ok" THEN m1 ELSE ExecReturn(m1, returnValue)
    [] op = OpReturn -> ExecReturn(m, Null)
    [] op = OpClosure ->
         LET constIndex == ReadUint16(ins, ip + 1)
             numFree == ReadUint8(ins, ip + 3)
             m1 == SetIp(m, ip + 3)
         IN  IF m1.sp - numFree < 0
               THEN Raise(m1, <<"stack underflow in OpClosure">>)
             ELSE pushClosure(m1, constIndex, numFree)
    [] op = OpGetFree ->
         LET freeIndex == ReadUint8(ins, ip + 1)
             m1 == SetIp(m, ip + 1)
         IN  Push(m1, currentFrame(m1).cl.elems[freeIndex + 1])
    [] op = OpHash ->
         LET numElements == ReadUint16(ins, ip + 1)
             m1 == SetIp(m, ip + 2)
             r == buildHash(m1, m1.sp - numElements, m1.sp, <<>>)
         IN  IF m1.sp - numElements < 0
               THEN Raise(m1, <<"stack underflow in OpHash">>)
             ELSE IF r.err # ""
               THEN Raise(m1, <<"unusable as hash key", r.err>>)
             ELSE Push([m1 EXCEPT !.sp = m1.sp - numElements], r.hash)
    [] op = OpGetBuiltin ->
         LET builtinIndex == ReadUint8(ins, ip + 1)
         IN  Push(SetIp(m, ip + 1), Builtin(builtinIndex))
    [] op = OpDestructure ->
         LET numElements == ReadUint8(ins, ip + 1)
             m1 == SetIp(m, ip + 1)
             obj == Top(m1)
             m2 == pop(m1)
         IN  IF m2.st # "ok" THEN m2
             ELSE IF obj.t = "TUPLE"
               THEN IF Len(obj.elems) < numElements
                      THEN Raise(m2, <<"not enough values to unpack",
                                       Len(obj.elems), numElements>>)
                      ELSE PushEach(m2, TupleFirst(obj.elems, numElements))
             ELSE IF ~ScalarFits(numElements)
               THEN Raise(m2, <<"cannot destructure non-tuple into",
                                numElements, "values">>)
             ELSE Push(m2, obj)
    \* the switch has no default: any other byte is skipped
    [] OTHER -> m

\* the boundary check of VM.run is due: opsCount >= 1024 after opsCount++
\* the token looked at every second interval only
CheckDueLate(ops) == ops >= 2 * CheckInterval

CheckDue(ops) == ops >= CheckInterval

\* One iteration of the loop of VM.run, its condition included, for a run
\* whose local counter is ops and whose ctx is done or not.  The result is
\* the state left and the counter.
RunIteration(m, ops, ctxDone) ==
  IF m.framesIndex - 1 < 0
    THEN [m |-> GoPanic(m, "frames: index out of range"), ops |-> ops]
  ELSE
    LET ins == FnOf(currentFrame(m).cl).Instructions
    IN  IF ~(currentFrame(m).ip < Len(ins) - 1)
          THEN [m |-> [m EXCEPT !.st = "done"], ops |-> ops]
        ELSE
          LET ip == currentFrame(m).ip + 1
              m1 == SetIp(m, ip)
              op == ins[ip + 1]
              ops1 == ops + 1
          IN  IF CheckDue(ops1) /\ ctxDone
                THEN [m |-> [m1 EXCEPT !.st = "cancel"], ops |-> ops1]
              ELSE [m |-> Raised(ExecOp(m1, op, ip, ins)),
                    ops |-> IF CheckDue(ops1) THEN 0 ELSE ops1]

(***************************************************************************)
(* The host.  Each thread of Hosts makes calls drawn from the menu of the  *)
(* loaded script; an Invoke passes the function the host read from the     *)
(* global g.  CancelAt bounds the moments at which the host triggers the   *)
(* token while a call runs (the values of the call's opsCount).            *)
(***************************************************************************)
Hosts == IF Prog.shared THEN Threads ELSE {1}
CallBudget == MaxCalls - Prog.less
CancelAt == {0, 1, 500, CheckInterval - 1}
UsesToken == \E c \in Prog.menu : c.ctx = "tok"

NoCall ==
  [kind |-> "none", g |-> 0, args |-> <<>>, ctx |-> "bg", fn |-> Nil,
   glIn |-> <<>>, fiIn |-> 0, outIn |-> 0, lowIn |-> <<>>]

\* ctx.Done() is closed for the call of thread t
CtxDone(t) == call[t].ctx = "tok" /\ cancelled

\* Run/Invoke entered without waiting for the mutex
LockSkipped(t) == TRUE

\* vm.mu.Lock() returns: no other thread holds the mutex
LockFree(t) == mu = NoThread

\* the accessor calls of the host: how many a behaviour makes, the keys and
\* values of the scratch store, the prefix and the global the host sets
MaxAccess == 1
CtxKeys == {"user"}
NoValue == "<absent>"
CtxValues == {"alice"}
Prefixes == {"[vm] "}
HostGlobals ==
  IF prog = 21
    THEN {[index |-> 0, val |-> HostBuiltin(name)] :
            name \in {"GetGlobal", "SetGlobal"}}
  ELSE {[index |-> 4, val |-> Integer(7)]}
\* the global the host reads: add of the shared script
ReadGlobals == {0}

Init ==
  /\ prog \in 1..Len(Programs)
  /\ bytecode \in Builds(prog)
  /\ stack = <<>>
  /\ sp = 0
  /\ globals = <<>>
  /\ frames = <<NewFrame(Closure(0, <<>>), 0)>>
  /\ framesIndex = 1
  /\ lastPopped = Nil
  /\ output = <<>>
  /\ printPrefix = ""
  /\ mu = NoThread
  /\ cancelled = FALSE
  /\ pc = [t \in Threads |-> "idle"]
  /\ call = [t \in Threads |-> NoCall]
  /\ opsCount = [t \in Threads |-> 0]
  /\ crashed = FALSE
  /\ ncalls = 0
  /\ log = <<>>
  /\ since = [t \in Threads |-> 0]
  /\ chain = [t \in Threads |-> <<>>]
  /\ ctxStore = [k \in CtxKeys |-> NoValue]
  /\ access = <<>>
  /\ tree = <<>>

\* history: the slots of the stack that hold the function, the arguments
\* and the locals of the function a call starts in
LowSlots == 5
Low(a) == [k \in 1..LowSlots |-> At(a, k - 1)]

\* the entry a completed call leaves in the history
LogEntry(t, c, kind, val, err, ch) ==
  [t |-> t, kind |-> c.kind, g |-> c.g, args |-> c.args, ctx |-> c.ctx,
   fn |-> c.fn, glIn |-> c.glIn, glOut |-> globals', out |-> kind,
   val |-> val, err |-> err, chain |-> ch, fi |-> framesIndex',
   late |-> since[t], fiIn |-> c.fiIn,
   printed |-> SubSeq(output', c.outIn + 1, Len(output')),
   lowIn |-> c.lowIn, low |-> Low(stack')]

\* VM.Run up to the call of run(): the lock is taken
RunBegin(t, c) ==
  /\ ~crashed
  /\ UNCHANGED <<ctxStore, access, tree>>
  /\ t \in Hosts
  /\ pc[t] = "idle"
  /\ ncalls < CallBudget
  /\ c \in Prog.menu
  /\ c.kind = "Run"
  /\ LockFree(t)
  /\ mu' = t
  /\ pc' = [pc EXCEPT ![t] = "running"]
  /\ call' = [call EXCEPT ![t] =
                [kind |-> c.kind, g |-> c.g, args |-> c.args, ctx |-> c.ctx,
                 fn |-> Closure(0, <<>>), glIn |-> globals,
                 fiIn |-> framesIndex, outIn |-> Len(output),
                 lowIn |-> Low(stack)]]
  /\ opsCount' = [opsCount EXCEPT ![t] = 0]
  /\ since' = [since EXCEPT ![t] = 0]
  /\ chain' = [chain EXCEPT ![t] = <<"main">>]
  /\ ncalls' = ncalls + 1
  /\ UNCHANGED <<prog, bytecode, stack, sp, globals, frames, framesIndex, lastPopped,
                 output, printPrefix, cancelled, crashed, log>>

RECURSIVE PushAll(_, _)
\* for _, arg := range args { vm.push(arg) }
PushAll(m, args) ==
  IF args = <<>> THEN m ELSE PushAll(push(m, args[1]).m, Tail(args))

\* steps 3 to 5 of VM.Invoke: the stack and the bottom frame are prepared
InvokePrepare(m, closure, args) ==
  LET m1 == PushAll(push([m EXCEPT !.sp = 0], closure).m, args)
      frame == NewFrame(closure, m1.sp - Len(args))
  IN  [m1 EXCEPT !.frames = Put(m1.frames, 0, frame),
                 !.framesIndex = 1,
                 !.sp = frame.basePointer + FnOf(closure).NumLocals]

\* VM.Invoke up to the call of run(): the lock is taken, fn and the arity
\* are validated (a failed validation returns at once), the stack and the
\* bottom frame are prepared
\* (n is the count of calls started, hist the history the completed call is
\* added to)
InvokeCall(t, c, n, hist) ==
  /\ ~crashed
  /\ UNCHANGED <<ctxStore, access, tree>>
  /\ t \in Hosts
  /\ pc[t] = "idle"
  /\ c.kind = "Invoke"
  /\ At(globals, c.g) # Nil
  /\ LockFree(t)
  /\ ncalls' = n
  /\ UNCHANGED <<prog, bytecode, output, printPrefix, cancelled, crashed>>
  /\ LET fn == At(globals, c.g)
         cc == [kind |-> c.kind, g |-> c.g, args |-> c.args, ctx |-> c.ctx,
                fn |-> fn, glIn |-> globals, fiIn |-> framesIndex,
                outIn |-> Len(output), lowIn |-> Low(stack)]
     IN  IF fn.t # "CLOSURE" \/ Len(c.args) # FnOf(fn).NumParameters
           THEN /\ UNCHANGED <<stack, sp, globals, frames, framesIndex,
                               lastPopped, mu, pc, call, opsCount, since,
                               chain>>
                /\ log' = Append(hist,
                     LogEntry(t, cc, "error", Nil,
                       [NoErr EXCEPT !.msg =
                          IF fn.t # "CLOSURE"
                            THEN <<"Invoke expected a function/closure">>
                            ELSE <<"wrong number of arguments">>], <<>>))
           ELSE \E m \in {InvokePrepare(VmState, fn, c.args)} :
                    /\ stack' = m.stack
                    /\ sp' = m.sp
                    /\ frames' = m.frames
                    /\ framesIndex' = m.framesIndex
                    /\ mu' = t
                    /\ pc' = [pc EXCEPT ![t] = "running"]
                    /\ call' = [call EXCEPT ![t] =
                                  [cc EXCEPT !.lowIn = Low(m.stack)]]
                    /\ opsCount' = [opsCount EXCEPT ![t] = 0]
                    /\ since' = [since EXCEPT ![t] = 0]
                    /\ chain' = [chain EXCEPT ![t] = <<FnOf(fn).Name>>]
                    /\ UNCHANGED <<globals, lastPopped, log>>

\* an Invoke of the host's menu, counted against the budget of calls
InvokeBegin(t, c) ==
  /\ ncalls < CallBudget
  /\ c \in Prog.menu
  /\ InvokeCall(t, c, ncalls + 1, log)

\* the history of the functions entered, after an iteration took the
\* frames from depth d0 to the state m
ChainAfter(ch, d0, m) ==
  IF m.framesIndex > d0 THEN Append(ch, TraceName(currentFrame(m)))
  ELSE IF m.framesIndex < d0 /\ ch # <<>> THEN SubSeq(ch, 1, Len(ch) - 1)
  ELSE ch

\* case *object.Builtin of OpCall, result := callee.Fn(vm, args...): the
\* accessor the host builtin the next instruction of thread t calls will
\* call on the VM, "" when the instruction calls no host builtin
HostCall(t) ==
  IF framesIndex < 1 THEN ""
  ELSE
    LET f == frames[framesIndex]
        ins == FnOf(f.cl).Instructions
        ip == f.ip + 1
    IN  IF ~(f.ip < Len(ins) - 1) \/ ins[ip + 1] # OpCall THEN ""
        ELSE LET callee == At(stack, sp - 1 - ins[ip + 2])
             IN  IF callee.t = "BUILTIN" /\ callee.v = -1 THEN callee.s
                 ELSE ""

\* the next iteration of thread t gets to the call of a host builtin
EntersBuiltin(t) ==
  /\ HostCall(t) # ""
  /\ ~(CheckDue(opsCount[t] + 1) /\ CtxDone(t))

\* the thread is inside the Fn of a host builtin, at the vm.mu.Lock() that
\* is the first statement of the accessor called name
InBuiltin(t, name) ==
  /\ ~crashed
  /\ pc[t] = "locking"
  /\ HostCall(t) = name

\* run() calls the Fn of a host builtin, which calls an accessor of the VM:
\* the thread gets to the accessor's vm.mu.Lock()
BuiltinEnter(t) ==
  /\ ~crashed
  /\ pc[t] = "running"
  /\ EntersBuiltin(t)
  /\ pc' = [pc EXCEPT ![t] = "locking"]
  /\ UNCHANGED <<prog, bytecode, stack, sp, globals, frames, framesIndex,
                 lastPopped, output, printPrefix, mu, cancelled, call,
                 opsCount, crashed, ncalls, log, since, chain, ctxStore,
                 access, tree>>

\* One iteration of the loop of run() by the thread inside it; when the
\* iteration returns from run(), Run/Invoke returns to the host (Invoke with
\* vm.lastPopped) and the deferred vm.mu.Unlock() runs.  hist is the
\* history the completed call is added to.  An iteration that calls a host
\* builtin is made once the accessor the builtin calls has returned.
RunStep(t, hist) ==
  /\ ~crashed
  /\ UNCHANGED <<ctxStore, access, tree>>
  /\ \/ pc[t] = "running" /\ ~EntersBuiltin(t)
     \/ pc[t] = "unlocked"
  /\ \E r \in {RunIteration(VmState, opsCount[t], CtxDone(t))} :
       \E m \in {r.m} :
         /\ stack' = m.stack
         /\ sp' = m.sp
         /\ globals' = m.globals
         /\ frames' = m.frames
         /\ framesIndex' = m.framesIndex
         /\ lastPopped' = m.lastPopped
         /\ output' = m.output
         /\ opsCount' = [opsCount EXCEPT ![t] = r.ops]
         /\ IF m.st = "ok"
              THEN /\ since' = [since EXCEPT ![t] =
                                  IF CtxDone(t) THEN since[t] + 1 ELSE 0]
                   /\ chain' = [chain EXCEPT ![t] =
                                  ChainAfter(chain[t], framesIndex, m)]
                   /\ pc' = [pc EXCEPT ![t] = "running"]
                   /\ UNCHANGED <<mu, call, crashed, log>>
              ELSE /\ mu' = NoThread
                   /\ pc' = [pc EXCEPT ![t] = "idle"]
                   /\ call' = [call EXCEPT ![t] = NoCall]
                   /\ crashed' = (m.st = "panic")
                   /\ log' = Append(hist,
                        LogEntry(t, call[t],
                          CASE m.st = "done" -> "value"
                            [] OTHER -> m.st,
                          IF m.st = "done" /\ call[t].kind = "Invoke"
                            THEN m.lastPopped ELSE Nil,
                          m.err, chain[t]))
                   /\ UNCHANGED <<since, chain>>
  /\ UNCHANGED <<prog, bytecode, printPrefix, cancelled, ncalls>>

\* an iteration whose completed call joins the history of all the calls
Step(t) == RunStep(t, log)

\* the host triggers the cancellation token
Cancel ==
  /\ ~crashed
  /\ UNCHANGED <<ctxStore, access, tree>>
  /\ UsesToken
  /\ ~cancelled
  /\ \A t \in Threads : pc[t] = "running" => opsCount[t] \in CancelAt
  /\ cancelled' = TRUE
  /\ UNCHANGED <<prog, bytecode, stack, sp, globals, frames, framesIndex, lastPopped,
                 output, printPrefix, mu, pc, call, opsCount, crashed, ncalls, log, since, chain>>

(***************************************************************************)
(* The tree-walking VM of package icescript, the implementation that has   *)
(* break and continue statements (the parser of the bytecode compiler has  *)
(* no statement for the BREAK and CONTINUE tokens).  A program is a map of *)
(* function declarations; Invoke executes the body of one of them over the *)
(* syntax tree.  vm is the VM as a value: callstack, the lines the host    *)
(* function emit has received (out), and the history depth (the for loops  *)
(* of the current function that enclose the statement being executed),     *)
(* stray (the first break or continue executed at depth 0) and strayOut    *)
(* (out at that moment).                                                   *)
(***************************************************************************)
VNull == [Kind |-> "null", I |-> 0, B |-> FALSE, Arr |-> <<>>]
VInt(v) == [Kind |-> "int", I |-> v, B |-> FALSE, Arr |-> <<>>]
VBool(v) == [Kind |-> "bool", I |-> 0, B |-> v, Arr |-> <<>>]
VArray(xs) == [Kind |-> "array", I |-> 0, B |-> FALSE, Arr |-> xs]

\* Value.AsBool
AsBool(v) ==
  CASE v.Kind = "bool" -> v.B
    [] v.Kind = "int" -> v.I # 0
    [] OTHER -> FALSE

\* kindName
kindName(k) == k

\* the syntax tree
NilNode == [kind |-> "nil"]
Ident(Name, P) == [kind |-> "Ident", Name |-> Name, P |-> P]
\* Raw is a decimal literal: its value
NumberLit(Raw, P) == [kind |-> "NumberLit", Raw |-> Raw, P |-> P]
BoolLit(Val, P) == [kind |-> "BoolLit", Val |-> Val, P |-> P]
NullLit(P) == [kind |-> "NullLit", P |-> P]
ArrayLit(Elems, P) == [kind |-> "ArrayLit", Elems |-> Elems, P |-> P]
CallExpr(Callee, Args, P) ==
  [kind |-> "CallExpr", Callee |-> Callee, Args |-> Args, P |-> P]
BlockStmt(Stmts) == [kind |-> "BlockStmt", Stmts |-> Stmts]
ReturnStmt(Expr, P) == [kind |-> "ReturnStmt", Expr |-> Expr, P |-> P]
BreakStmt(P) == [kind |-> "BreakStmt", P |-> P]
ContinueStmt(P) == [kind |-> "ContinueStmt", P |-> P]
ExprStmt(X, P) == [kind |-> "ExprStmt", X |-> X, P |-> P]
IfStmt(Cond, Then, Else, P) ==
  [kind |-> "IfStmt", Cond |-> Cond, Then |-> Then, Else |-> Else, P |-> P]
ForInStmt(VarName, Iterable, Body, P) ==
  [kind |-> "ForInStmt", VarName |-> VarName, Iterable |-> Iterable,
   Body |-> Body, P |-> P]
FuncDecl(Name, Params, Body, Start) ==
  [Name |-> Name, Params |-> Params, Body |-> Body, Start |-> Start]

\* the errors of the evaluator: nil, loopErr, returnErr and the error rtErr
\* makes (its text is the position, the message and the call stack, most
\* recent first)
NoError ==
  [kind |-> "nil", signal |-> "", pos |-> 0, value |-> VNull, msg |-> "",
   stack |-> <<>>]
signalBreak == "break"
signalContinue == "continue"
loopErr(kind, pos) ==
  [NoError EXCEPT !.kind = "loopErr", !.signal = kind, !.pos = pos]
returnErr(value) == [NoError EXCEPT !.kind = "returnErr", !.value = value]
rtErr(vm, pos, msg) ==
  [NoError EXCEPT
     !.kind = "runtime error", !.pos = pos, !.msg = msg,
     !.stack = [i \in 1..Len(vm.callstack) |->
                  vm.callstack[Len(vm.callstack) + 1 - i]]]

\* a loop signal is returned to the caller as it is
convertNothing(vm, err) == err

\* convertLoopErr
convertLoopErr(vm, err) ==
  IF err.kind = "loopErr"
    THEN CASE err.signal = signalBreak ->
                rtErr(vm, err.pos, "break outside of loop")
           [] err.signal = signalContinue ->
                rtErr(vm, err.pos, "continue outside of loop")
    ELSE err

\* environment: the chain of variable maps, the innermost last
newEnvironment(parent) == Append(parent, <<>>)
declare(e, name, v) == [e EXCEPT ![Len(e)] = (name :> v) @@ @]
\* the innermost map of e that has name, 0 when there is none
Holder(e, name) ==
  LET hits == {i \in 1..Len(e) : name \in DOMAIN e[i]}
  IN  IF hits = {} THEN 0 ELSE CHOOSE i \in hits : \A j \in hits : j <= i
lookup(e, name) ==
  IF Holder(e, name) = 0 THEN [v |-> VNull, ok |-> FALSE]
  ELSE [v |-> e[Holder(e, name)][name], ok |-> TRUE]
assign(e, name, v) ==
  IF Holder(e, name) = 0 THEN [e |-> e, ok |-> FALSE]
  ELSE [e |-> [e EXCEPT ![Holder(e, name)][name] = v], ok |-> TRUE]
RECURSIVE declareAll(_, _, _)
\* for i, prm := range f.Params { env.declare(prm.Name, args[i]) }
declareAll(e, names, vals) ==
  IF names = <<>> THEN e
  ELSE declareAll(declare(e, Head(names), Head(vals)), Tail(names),
                  Tail(vals))

\* NewVM, with the history fields
NewVM ==
  [callstack |-> <<>>, out |-> <<>>, depth |-> 0, stray |-> "",
   strayOut |-> <<>>]

\* history: a break or continue is executed; at depth 0 it has no enclosing
\* loop in its function
Signalled(vm, kind) ==
  IF vm.depth = 0 /\ vm.stray = ""
    THEN [vm EXCEPT !.stray = kind, !.strayOut = vm.out]
    ELSE vm

\* the host functions registered with RegisterHostFunc: emit records its
\* argument
HostFuncNames == {"emit"}
HostFunc(vm, name, argv) ==
  [val |-> VNull, err |-> NoError,
   vm |-> [vm EXCEPT !.out = Append(@, argv[1].I)]]

\*  1 func demo() { break; return null }
\*  2 func again() { continue; return null }
\*  3 func stop() { break }
\*  4 func skip() { continue }
\*  5 func nested() { if true { break } return 1 }
\*  6 func loop() {
\*  7   for x in [1, 0, 3] { if x { emit(x); continue } break }
\*  8   emit(7); return 0 }
\*  9 func caller() {
\* 10   for x in [1, 2] { emit(x); stop(); emit(9) }
\* 11   return 0 }
\* 12 func caller2() {
\* 13   for x in [1, 2] { emit(x); skip(); emit(9) }
\* 14   return 0 }
CallerOf(callee, line) ==
  BlockStmt(<<
    ForInStmt("x",
      ArrayLit(<<NumberLit(1, line + 1), NumberLit(2, line + 1)>>, line + 1),
      BlockStmt(<<
        ExprStmt(CallExpr("emit", <<Ident("x", line + 1)>>, line + 1),
                 line + 1),
        ExprStmt(CallExpr(callee, <<>>, line + 1), line + 1),
        ExprStmt(CallExpr("emit", <<NumberLit(9, line + 1)>>, line + 1),
                 line + 1) >>), line + 1),
    ReturnStmt(NumberLit(0, line + 2), line + 2) >>)

Funcs ==
  [demo |-> FuncDecl("demo", <<>>,
     BlockStmt(<<BreakStmt(1), ReturnStmt(NullLit(1), 1)>>), 1),
   again |-> FuncDecl("again", <<>>,
     BlockStmt(<<ContinueStmt(2), ReturnStmt(NullLit(2), 2)>>), 2),
   stop |-> FuncDecl("stop", <<>>, BlockStmt(<<BreakStmt(3)>>), 3),
   skip |-> FuncDecl("skip", <<>>, BlockStmt(<<ContinueStmt(4)>>), 4),
   nested |-> FuncDecl("nested", <<>>,
     BlockStmt(<<
       IfStmt(BoolLit(TRUE, 5), BlockStmt(<<BreakStmt(5)>>), NilNode, 5),
       ReturnStmt(NumberLit(1, 5), 5) >>), 5),
   loop |-> FuncDecl("loop", <<>>,
     BlockStmt(<<
       ForInStmt("x",
         ArrayLit(<<NumberLit(1, 7), NumberLit(0, 7), NumberLit(3, 7)>>, 7),
         BlockStmt(<<
           IfStmt(Ident("x", 7),
             BlockStmt(<<
               ExprStmt(CallExpr("emit", <<Ident("x", 7)>>, 7), 7),
               ContinueStmt(7) >>), NilNode, 7),
           BreakStmt(7) >>), 7),
       ExprStmt(CallExpr("emit", <<NumberLit(7, 8)>>, 8), 8),
       ReturnStmt(NumberLit(0, 8), 8) >>), 6),
   caller |-> FuncDecl("caller", <<>>, CallerOf("stop", 9), 9),
   caller2 |-> FuncDecl("caller2", <<>>, CallerOf("skip", 12), 12)]

RECURSIVE execBlock(_, _, _), execStmts(_, _, _, _), forItems(_, _, _, _, _)
RECURSIVE evalExpr(_, _, _), evalEach(_, _, _, _), callFunc(_, _, _)

\* what VM.Invoke and the CallExpr case do with the outcome r of the body:
\* the frame is popped, a return is the value, a loop signal is converted
returned(vm, r) ==
  LET vm1 == [r.vm EXCEPT !.callstack = vm.callstack, !.depth = vm.depth]
  IN  IF r.err # NoError
        THEN IF r.err.kind = "returnErr"
               THEN [val |-> r.err.value, err |-> NoError, vm |-> vm1]
               ELSE [val |-> VNull, err |-> convertLoopErr(vm1, r.err),
                     vm |-> vm1]
        ELSE [val |-> r.val, err |-> NoError, vm |-> vm1]

\* the body of a scripted function is executed in a fresh environment
callFunc(vm, f, argv) ==
  returned(vm,
    execBlock([vm EXCEPT !.callstack = Append(@, f.Name), !.depth = 0],
              declareAll(newEnvironment(<<>>), f.Params, argv), f.Body))

\* the next argument or element, after r, the value of the one before
evalNext(env, exprs, acc, r) ==
  IF r.err # NoError THEN [vals |-> acc, err |-> r.err, vm |-> r.vm]
  ELSE evalEach(r.vm, env, Tail(exprs), Append(acc, r.val))

\* the arguments or elements are evaluated in order up to the first error
evalEach(vm, env, exprs, acc) ==
  IF exprs = <<>> THEN [vals |-> acc, err |-> NoError, vm |-> vm]
  ELSE evalNext(env, exprs, acc, evalExpr(vm, env, Head(exprs)))

\* the cases of VM.evalExpr; r is the evaluation of the elements of an
\* array literal or of the arguments of a call
evalCase(vm, env, ex, r) ==
  LET Value(v, e, m) == [val |-> v, err |-> e, vm |-> m]
  IN
  CASE ex.kind = "Ident" ->
         IF lookup(env, ex.Name).ok
           THEN Value(lookup(env, ex.Name).v, NoError, vm)
           ELSE Value(VNull,
                  rtErr(vm, ex.P, "undefined identifier " \o ex.Name), vm)
    [] ex.kind = "NumberLit" -> Value(VInt(ex.Raw), NoError, vm)
    [] ex.kind = "BoolLit" -> Value(VBool(ex.Val), NoError, vm)
    [] ex.kind = "NullLit" -> Value(VNull, NoError, vm)
    [] ex.kind = "ArrayLit" ->
         IF r.err # NoError THEN Value(VNull, r.err, r.vm)
         ELSE Value(VArray(r.vals), NoError, r.vm)
    [] ex.kind = "CallExpr" ->
         IF ex.Callee \in DOMAIN Funcs
           THEN IF Len(ex.Args) # Len(Funcs[ex.Callee].Params)
                  THEN Value(VNull,
                         rtErr(vm, ex.P,
                           "function " \o ex.Callee \o " expects other args"),
                         vm)
                ELSE IF r.err # NoError THEN Value(VNull, r.err, r.vm)
                ELSE callFunc(r.vm, Funcs[ex.Callee], r.vals)
         ELSE IF ex.Callee \in HostFuncNames
           THEN IF r.err # NoError THEN Value(VNull, r.err, r.vm)
                ELSE HostFunc(r.vm, ex.Callee, r.vals)
         ELSE Value(VNull,
                rtErr(vm, ex.P, "unknown function " \o ex.Callee), vm)

\* VM.evalExpr (vm.constants and vm.globals are empty)
evalExpr(vm, env, ex) ==
  evalCase(vm, env, ex,
    evalEach(vm, env,
      IF ex.kind = "ArrayLit" THEN ex.Elems
      ELSE IF ex.kind = "CallExpr" THEN ex.Args ELSE <<>>, <<>>))

\* the loop of ForInStmt after the body ran with the outcome r for the
\* first of items: continue goes to the next item, break leaves the loop,
\* a return or an error leaves the block
afterBody(vm, s, items, last, r) ==
  LET vm1 == [r.vm EXCEPT !.depth = vm.depth]
      Leave(v, e) == [val |-> v, err |-> e, vm |-> vm1, env |-> r.env]
      continue == r.err.kind = "loopErr" /\ r.err.signal = signalContinue
      break == r.err.kind = "loopErr" /\ r.err.signal = signalBreak
  IN  IF r.err # NoError /\ ~continue
        THEN IF r.err.kind = "returnErr" THEN Leave(r.val, r.err)
             ELSE IF break THEN Leave(last, NoError)
             ELSE Leave(VNull, r.err)
        ELSE forItems(vm1, r.env, s, Tail(items),
                      IF continue THEN last ELSE r.val)

\* blockEnv.assign(s.VarName, item), or declare when there is no such name
bindItem(env, name, item, a) ==
  IF a.ok THEN a.e ELSE declare(env, name, item)

\* the loop of ForInStmt over the items left
forItems(vm, env, s, items, last) ==
  IF items = <<>>
    THEN [val |-> last, err |-> NoError, vm |-> vm, env |-> env]
  ELSE afterBody(vm, s, items, last,
         execBlock([vm EXCEPT !.depth = @ + 1],
                   bindItem(env, s.VarName, Head(items),
                            assign(env, s.VarName, Head(items))),
                   s.Body))

\* the expression a statement evaluates first
ExprOf(s) ==
  CASE s.kind = "ReturnStmt" -> s.Expr
    [] s.kind = "ExprStmt" -> s.X
    [] s.kind = "IfStmt" -> s.Cond
    [] s.kind = "ForInStmt" -> s.Iterable
    [] OTHER -> NilNode

\* the branch of an if statement that the condition value c selects
BranchOf(s, c) == IF AsBool(c) THEN s.Then ELSE s.Else

\* one statement of VM.execBlock: x is the value of its expression, b the
\* outcome of the selected branch of an if, f the outcome of the loop of a
\* for; Leave is a return from execBlock, Go the next turn of its loop
execStmt(vm, env, s, x, b, f) ==
  LET Leave(v, e, m, n) ==
        [left |-> TRUE, val |-> v, err |-> e, vm |-> m, env |-> n]
      Go(v, m, n) ==
        [left |-> FALSE, val |-> v, err |-> NoError, vm |-> m, env |-> n]
  IN
  CASE s.kind = "ReturnStmt" ->
         IF s.Expr # NilNode
           THEN IF x.err # NoError THEN Leave(VNull, x.err, x.vm, env)
                ELSE Leave(x.val, returnErr(x.val), x.vm, env)
           ELSE Leave(VNull, returnErr(VNull), vm, env)
    [] s.kind = "BreakStmt" ->
         Leave(VNull, loopErr(signalBreak, s.P),
               Signalled(vm, signalBreak), env)
    [] s.kind = "ContinueStmt" ->
         Leave(VNull, loopErr(signalContinue, s.P),
               Signalled(vm, signalContinue), env)
    [] s.kind = "ExprStmt" ->
         IF x.err # NoError THEN Leave(VNull, x.err, x.vm, env)
         ELSE Go(x.val, x.vm, env)
    [] s.kind = "IfStmt" ->
         IF x.err # NoError THEN Leave(VNull, x.err, x.vm, env)
         ELSE IF BranchOf(s, x.val) = NilNode THEN Go(VNull, x.vm, env)
         ELSE IF b.err # NoError
           THEN IF b.err.kind = "returnErr"
                  THEN Leave(b.val, b.err, b.vm, b.env)
                  ELSE Leave(VNull, b.err, b.vm, b.env)
         ELSE Go(b.val, b.vm, b.env)
    [] s.kind = "ForInStmt" ->
         IF x.err # NoError THEN Leave(VNull, x.err, x.vm, env)
         ELSE IF x.val.Kind # "array"
           THEN Leave(VNull,
                  rtErr(x.vm, s.P,
                    "cannot iterate over " \o kindName(x.val.Kind)),
                  x.vm, env)
         ELSE IF f.err # NoError THEN Leave(f.val, f.err, f.vm, f.env)
         ELSE Go(f.val, f.vm, f.env)
    [] OTHER ->
         Leave(VNull, rtErr(vm, s.P, "unsupported statement"), vm, env)

\* the statement s with the value x of its expression
withExpr(vm, env, s, last, x) ==
  execStmt(vm, env, s, x,
    execBlock(x.vm, env, BranchOf(s, x.val)),
    forItems(x.vm, env, s, x.val.Arr, last))

\* after the outcome o of the first of stmts: out of the block or on to the
\* next statement
afterStmt(stmts, o) ==
  IF o.left THEN [val |-> o.val, err |-> o.err, vm |-> o.vm, env |-> o.env]
  ELSE execStmts(o.vm, o.env, Tail(stmts), o.val)

\* the statement loop of VM.execBlock, from the statements left
execStmts(vm, env, stmts, last) ==
  IF stmts = <<>>
    THEN [val |-> last, err |-> NoError, vm |-> vm, env |-> env]
  ELSE afterStmt(stmts,
         withExpr(vm, env, Head(stmts), last,
                  evalExpr(vm, env, ExprOf(Head(stmts)))))

\* the environment of the block is dropped when the block is left
leaveBlock(env, r) == [r EXCEPT !.env = SubSeq(r.env, 1, Len(env))]

\* VM.execBlock: the statements run in an environment of their own
execBlock(vm, env, blk) ==
  leaveBlock(env, execStmts(vm, newEnvironment(env), blk.Stmts, VNull))

\* VM.Invoke(name) of the tree-walking VM, without arguments
Invoke(vm, name) ==
  IF name \in DOMAIN Funcs
    THEN IF Len(Funcs[name].Params) # 0
           THEN [val |-> VNull,
                 err |-> rtErr(vm, Funcs[name].Start,
                           "function " \o name \o " expects other args"),
                 vm |-> vm]
           ELSE callFunc(vm, Funcs[name], <<>>)
  ELSE IF name \in HostFuncNames THEN HostFunc(vm, name, <<>>)
  ELSE [val |-> VNull, err |-> rtErr(vm, 0, "unknown function " \o name),
        vm |-> vm]

\* the calls the host makes on the tree-walking VM
MaxTreeCalls == 2
TreeMenu == DOMAIN Funcs \cup {"nowhere"}

\* the threads inside run()
Running == {t \in Threads : pc[t] = "running"}

\* a host thread that is between its calls makes one more accessor call
MayAccess(t) ==
  /\ ~crashed
  /\ Prog.shared
  /\ t \in Hosts
  /\ pc[t] = "idle"
  /\ Len(access) < MaxAccess

\* the entry an accessor call leaves in the history: what it read or wrote,
\* the threads that were inside run() at that moment and the number of calls
\* that had returned
Access(t, op, key, val) ==
  [t |-> t, op |-> op, key |-> key, val |-> val, during |-> Running,
   at |-> Len(log)]

\* the accessor returns: a host thread is between its calls as before, a
\* thread inside a host builtin goes on with the builtin
Unlocked(t) ==
  IF pc[t] = "locking" THEN [pc EXCEPT ![t] = "unlocked"] ELSE pc

\* VM.GetGlobal of the name the compiler bound to globals[index]: vm.mu is
\* held from the first statement to the return
GetGlobal(t, index) ==
  /\ MayAccess(t) \/ InBuiltin(t, "GetGlobal")
  /\ LockFree(t)
  /\ access' = Append(access,
                  Access(t, "GetGlobal", index, At(globals, index)))
  /\ pc' = Unlocked(t)
  /\ UNCHANGED <<prog, bytecode, stack, sp, globals, frames, framesIndex, lastPopped,
                 output, printPrefix, mu, cancelled, call, opsCount,
                 crashed, ncalls, log, since, chain, ctxStore, tree>>

\* VM.SetGlobal: vm.mu is held from the first statement to the return
SetGlobal(t, index, val) ==
  /\ MayAccess(t) \/ InBuiltin(t, "SetGlobal")
  /\ LockFree(t)
  /\ pc' = Unlocked(t)
  /\ IF index >= GlobalSize
       THEN /\ access' = Append(access,
                           Access(t, "SetGlobal", index,
                                  Str("global index out of bounds")))
            /\ UNCHANGED globals
       ELSE /\ globals' = Put(globals, index, val)
            /\ access' = Append(access, Access(t, "SetGlobal", index, val))
  /\ UNCHANGED <<prog, bytecode, stack, sp, frames, framesIndex, lastPopped, output,
                 printPrefix, mu, cancelled, call, opsCount, crashed,
                 ncalls, log, since, chain, ctxStore, tree>>

\* VM.Get: vm.ctxMu is read-locked for the lookup; no other lock is taken
Get(t, k) ==
  /\ MayAccess(t)
  /\ access' = Append(access, Access(t, "Get", k, ctxStore[k]))
  /\ UNCHANGED <<prog, bytecode, stack, sp, globals, frames, framesIndex, lastPopped,
                 output, printPrefix, mu, cancelled, pc, call, opsCount,
                 crashed, ncalls, log, since, chain, ctxStore, tree>>

\* VM.Set: vm.ctxMu is locked for the store; no other lock is taken
Set(t, k, v) ==
  /\ MayAccess(t)
  /\ ctxStore' = [ctxStore EXCEPT ![k] = v]
  /\ access' = Append(access, Access(t, "Set", k, v))
  /\ UNCHANGED <<prog, bytecode, stack, sp, globals, frames, framesIndex, lastPopped,
                 output, printPrefix, mu, cancelled, pc, call, opsCount,
                 crashed, ncalls, log, since, chain, tree>>

\* VM.SetPrintPrefix: a plain store, no lock
SetPrintPrefix(t, p) ==
  /\ MayAccess(t)
  /\ printPrefix' = p
  /\ access' = Append(access, Access(t, "SetPrintPrefix", "", p))
  /\ UNCHANGED <<prog, bytecode, stack, sp, globals, frames, framesIndex, lastPopped,
                 output, mu, cancelled, pc, call, opsCount, crashed, ncalls,
                 log, since, chain, ctxStore, tree>>

\* VM.PrintPrefix: a plain load, no lock
PrintPrefix(t) ==
  /\ MayAccess(t)
  /\ access' = Append(access, Access(t, "PrintPrefix", "", printPrefix))
  /\ UNCHANGED <<prog, bytecode, stack, sp, globals, frames, framesIndex, lastPopped,
                 output, printPrefix, mu, cancelled, pc, call, opsCount,
                 crashed, ncalls, log, since, chain, ctxStore, tree>>

\* the host calls Invoke(name) on a tree-walking VM that holds Funcs
TreeInvoke(name) ==
  /\ prog = 15
  /\ Len(tree) < MaxTreeCalls
  /\ \E r \in {Invoke(NewVM, name)} :
       tree' = Append(tree,
                 [name |-> name, val |-> r.val, err |-> r.err,
                  out |-> r.vm.out, stray |-> r.vm.stray,
                  strayOut |-> r.vm.strayOut,
                  callstack |-> r.vm.callstack])
  /\ UNCHANGED <<prog, bytecode, stack, sp, globals, frames, framesIndex, lastPopped,
                 output, printPrefix, mu, cancelled, pc, call, opsCount,
                 crashed, ncalls, log, since, chain, ctxStore, access>>

Next ==
  \/ \E t \in Threads : \E c \in Prog.menu : RunBegin(t, c)
  \/ \E t \in Threads : \E c \in Prog.menu : InvokeBegin(t, c)
  \/ \E t \in Threads : Step(t)
  \/ \E t \in Threads : BuiltinEnter(t)
  \/ Cancel
  \/ \E t \in Threads : \E g \in ReadGlobals : GetGlobal(t, g)
  \/ \E t \in Threads : \E g \in HostGlobals : SetGlobal(t, g.index, g.val)
  \/ \E t \in Threads : \E k \in CtxKeys : Get(t, k)
  \/ \E t \in Threads : \E k \in CtxKeys : \E v \in CtxValues : Set(t, k, v)
  \/ \E t \in Threads : \E p \in Prefixes : SetPrintPrefix(t, p)
  \/ \E t \in Threads : PrintPrefix(t)
  \/ \E name \in TreeMenu : TreeInvoke(name)

Spec == Init /\ [][Next]_vars

(***************************************************************************)
(* The host loop of SPEC.md 4.4 (run once, invoke many):                   *)
(*   machine.Run(ctx)                                                      *)
(*   for { result, err := machine.Invoke(ctx, onTick, delta)               *)
(*         if err != nil { break } }                                       *)
(* One host thread runs the script, then invokes functions of the menu     *)
(* with the token for as long as the last call returned no error.  The     *)
(* loop has no bound on its calls, so its history keeps the last completed *)
(* call only.  The scripts are the ones whose functions the host invokes   *)
(* with the token.                                                         *)
(***************************************************************************)
LoopProgs == {p \in 1..Len(Programs) :
                \E c \in Programs[p].menu : c.ctx = "tok"}

LoopInit == Init /\ prog \in LoopProgs

LastOut == IF log = <<>> THEN "none" ELSE log[Len(log)].out

\* machine.Run(ctx), once, before the loop
LoopRun(c) ==
  /\ ncalls = 0
  /\ RunBegin(1, c)

\* one more pass of the loop: the previous call returned err == nil
LoopInvoke(c) ==
  /\ LastOut = "value"
  /\ c \in Prog.menu
  /\ c.ctx = "tok"
  /\ InvokeCall(1, c, ncalls, <<>>)

\* an iteration of run() inside the call the loop is making
LoopStep == RunStep(1, <<>>)

LoopNext ==
  \/ \E c \in Prog.menu : LoopRun(c)
  \/ \E c \in Prog.menu : LoopInvoke(c)
  \/ LoopStep
  \/ Cancel

\* The host thread is scheduled: it runs the script, a call it is inside
\* goes on, and the loop makes its next call.  Nothing makes the host
\* trigger the token.
LoopSpec ==
  /\ LoopInit
  /\ [][LoopNext]_vars
  /\ WF_vars(\E c \in Prog.menu : LoopRun(c))
  /\ WF_vars(LoopStep)
  /\ WF_vars(\E c \in Prog.menu : LoopInvoke(c))

(***************************************************************************)
(* Properties.  A completed call is an entry of log; Entries(name) are the *)
(* positions of the Invoke calls of the function called name that reached  *)
(* run().                                                                  *)
(***************************************************************************)
Ran(e) == e.out \in {"value", "rterr", "cancel", "panic"}
InvokesOf(name) ==
  {i \in 1..Len(log) :
     /\ log[i].kind = "Invoke"
     /\ log[i].fn.t = "CLOSURE"
     /\ FnOf(log[i].fn).Name = name
     /\ Ran(log[i])}

\* C1: Run and Invoke executions on one VM never overlap (at most one thread
\* is inside run() at any time), and every Invoke(add, a, b), whichever
\* thread makes it and whatever the other threads call, returns a + b.
C1_Serialized ==
  /\ Cardinality(Running) <= 1
  /\ \A t \in Running : mu = t
  /\ \A i \in InvokesOf("add") :
       /\ log[i].out = "value"
       /\ log[i].val = Integer(log[i].args[1].v + log[i].args[2].v)

\* C1 witness: one thread has completed an Invoke(add, ...) and another
\* thread is executing an Invoke(add, ...) with different arguments.
C1_Witness ==
  \E i \in InvokesOf("add") : \E t \in Running :
    /\ t # log[i].t
    /\ call[t].fn = log[i].fn
    /\ call[t].args # log[i].args

\* C2: two Invoke calls of the same function with the same arguments that
\* start from the same globals return the same outcome and value, whatever
\* the calls before them left in the stack, the frames and lastPopped.
C2_InvokeIsolated ==
  \A i, j \in 1..Len(log) :
    ( /\ log[i].kind = "Invoke" /\ log[j].kind = "Invoke"
      /\ log[i].ctx = "bg" /\ log[j].ctx = "bg"
      /\ log[i].fn = log[j].fn
      /\ log[i].args = log[j].args
      /\ log[i].glIn = log[j].glIn )
    => (log[i].out = log[j].out /\ log[i].val = log[j].val)

RECURSIVE HostWrites(_, _, _)
\* the globals g after the SetGlobal calls, from the k-th accessor call on,
\* that the host made when n calls had returned
HostWrites(g, n, k) ==
  IF k > Len(access) THEN g
  ELSE HostWrites(
         IF access[k].op = "SetGlobal" /\ access[k].at = n
            /\ access[k].key < GlobalSize
           THEN Put(g, access[k].key, access[k].val) ELSE g,
         n, k + 1)

\* C3: with var x = 0; func inc(){ x = x+1; return x }, the k-th Invoke(inc)
\* after Run returns k (1, 2, 3, ...), and every call starts from the
\* globals the call before it left (with what the host stored by SetGlobal
\* in between).
C3_GlobalsPersist ==
  /\ \A i \in 2..Len(log) :
       Ran(log[i]) => log[i].glIn = HostWrites(log[i - 1].glOut, i - 1, 1)
  /\ \A i \in InvokesOf("inc") :
       /\ log[i].out = "value"
       /\ log[i].val = Integer(Cardinality({j \in InvokesOf("inc") : j <= i}))
       /\ At(log[i].glOut, 0) = log[i].val

\* C3 witness: three Invoke(inc) calls have returned 1, 2 and 3.
C3_Witness ==
  /\ Cardinality(InvokesOf("inc")) = 3
  /\ \E i, j, k \in InvokesOf("inc") :
       /\ i < j /\ j < k
       /\ log[i].val = Integer(1)
       /\ log[j].val = Integer(2)
       /\ log[k].val = Integer(3)

\* the call of thread t returns in this step with the outcome out
Returns(t, out) ==
  /\ pc[t] = "running"
  /\ pc'[t] = "idle"
  /\ log' # log
  /\ log'[Len(log')].out = out

\* the instruction the next iteration of run() fetches: its position, its
\* opcode and its first operand byte
Fetch ==
  LET f == frames[framesIndex]
      ins == FnOf(f.cl).Instructions
      ip == f.ip + 1
  IN  [ip |-> ip, op |-> ins[ip + 1],
       arg |-> IF ip + 2 <= Len(ins) THEN ins[ip + 2] ELSE 0]
CanFetch ==
  /\ framesIndex >= 1
  /\ frames[framesIndex].ip < Len(FnOf(frames[framesIndex].cl).Instructions) - 1

\* C4: a call never executes more than 1024 instructions after its token was
\* triggered: by then it has returned, and a call that returns the
\* cancellation error is a call whose token was triggered, at most 1024
\* executed instructions earlier.
C4_CancelWithin1024 ==
  /\ \A t \in Running : since[t] <= 1024
  /\ \A i \in 1..Len(log) :
       log[i].out = "cancel" => (log[i].ctx = "tok" /\ log[i].late <= 1024)

\* C4 witness: one call was cancelled 523 instructions after a trigger in
\* mid-run, and a call that started with the token triggered was cancelled
\* at its first boundary.
C4_Witness ==
  \E i, j \in 1..Len(log) :
    /\ log[i].out = "cancel" /\ log[i].late = CheckInterval - 1 - 500
    /\ log[j].out = "cancel" /\ log[j].late = CheckInterval - 1

\* C5: the step in which a boundary check finds the token cancelled changes
\* neither the value stack, the stack pointer, the globals, the frame stack
\* nor any frame's instruction pointer.
C5_CancelMutatesNothing ==
  [][ (\E t \in Threads : Returns(t, "cancel"))
      => /\ stack' = stack
         /\ sp' = sp
         /\ globals' = globals
         /\ framesIndex' = framesIndex
         /\ frames' = frames ]_vars

\* C6: a Call of a closure with n arguments makes the slot of the callee the
\* slot below the new frame's base pointer and changes no stack slot; the
\* return from that frame leaves sp one above the callee's slot, the return
\* value (null for a bare Return) in that slot, every slot below unchanged,
\* and the caller's frame current with its ip on the operand of its Call, so
\* that the next instruction fetched is the one after the Call.
C6_CallReturnOnePush ==
  [][ \A t \in Threads :
        (pc[t] = "running" /\ pc'[t] = "running") =>
          /\ framesIndex' > framesIndex =>
               LET n == Fetch.arg
                   fr == frames'[framesIndex']
               IN  /\ Fetch.op = OpCall
                   /\ framesIndex' = framesIndex + 1
                   /\ fr.basePointer - 1 = sp - n - 1
                   /\ fr.cl = At(stack, sp - n - 1)
                   /\ fr.ip = -1
                   /\ stack' = stack
          /\ framesIndex' < framesIndex =>
               LET fr == frames[framesIndex]
                   slot == fr.basePointer - 1
                   caller == frames'[framesIndex']
               IN  /\ Fetch.op \in {OpReturnValue, OpReturn}
                   /\ framesIndex' = framesIndex - 1
                   /\ sp' = slot + 1
                   /\ At(stack', slot) =
                        (IF Fetch.op = OpReturn THEN Null
                         ELSE At(stack, sp - 1))
                   /\ \A k \in 0..(slot - 1) : At(stack', k) = At(stack, k)
                   /\ caller = frames[framesIndex - 1]
                   /\ FnOf(caller.cl).Instructions[caller.ip] = OpCall ]_vars

\* C6 witness: a callee has just returned an integer: the frame above the
\* current one stopped on its last instruction, the current frame stands on
\* the operand of its Call and the returned value is on top of the stack.
C6_Witness ==
  /\ Running # {}
  /\ framesIndex >= 1
  /\ Len(frames) > framesIndex
  /\ LET caller == frames[framesIndex]
         callee == frames[framesIndex + 1]
     IN  /\ caller.ip >= 1
         /\ FnOf(caller.cl).Instructions[caller.ip] = OpCall
         /\ callee.ip = Len(FnOf(callee.cl).Instructions) - 1
         /\ sp = callee.basePointer
         /\ At(stack, sp - 1) = lastPopped
         /\ lastPopped.t = "INTEGER"

\* the opcodes whose first stack effect is a push
PushFirst ==
  {OpConstant, OpTrue, OpFalse, OpNull, OpGetGlobal, OpGetLocal,
   OpGetBuiltin, OpGetFree, OpCurrentClosure, OpDup}

C8_FramesEmptyAroundInvoke ==
  \A i \in 1..Len(log) :
    (log[i].kind = "Invoke" /\ log[i].out \in {"value", "rterr", "cancel"})
      => (log[i].fiIn = 0 /\ log[i].fi = 0)

\* the sequence s in reverse order
Reverse(s) == [k \in 1..Len(s) |-> s[Len(s) + 1 - k]]

\* C9: the stack trace of every runtime error Run or Invoke returns is not
\* empty and names, innermost first, exactly the functions the call had
\* entered and not left when the error was raised.
C9_TraceIsActiveFrames ==
  \A i \in 1..Len(log) :
    log[i].out = "rterr" =>
      /\ log[i].err.trace # <<>>
      /\ [k \in 1..Len(log[i].err.trace) |-> log[i].err.trace[k].name]
           = Reverse(log[i].chain)

\* C10: a call that evaluates / or % with a zero divisor returns a runtime
\* error that carries stack frames.
C10_DivModByZeroIsRuntimeError ==
  \A i \in 1..Len(log) :
    log[i].err.msg = <<"integer divide by zero">> =>
      (log[i].out = "rterr" /\ log[i].err.trace # <<>>)


(***************************************************************************)
(* C11: the operands of every binary operator and the arguments of a call  *)
(* are evaluated left to right: a call of a function of ProgOrder that     *)
(* returns has printed "L" (its left operand or first argument) before "R" *)
(* (its right operand or second argument).                                 *)
(***************************************************************************)
C11_LeftToRight ==
  \A i \in 1..Len(log) :
    ( /\ prog = 8
      /\ log[i].kind = "Invoke"
      /\ log[i].out = "value" )
    => log[i].printed = << <<"L">>, <<"R">> >>

(***************************************************************************)
(* C12: a condition of if, for, && or || that is an array, a hash, a       *)
(* closure, a host object or a tuple ends the call with the runtime error  *)
(* "condition must be boolean, got <TYPE>" and neither branch runs; a      *)
(* boolean, null, integer, float or string never raises and is falsy       *)
(* exactly when it is false, null, zero or the empty string.               *)
(***************************************************************************)
Falsy == {False, Null, Integer(0), Float(0), Str("")}

C12_StrictTruthiness ==
  \A i \in 1..Len(log) :
    ( /\ prog = 9
      /\ log[i].kind = "Invoke"
      /\ Ran(log[i]) )
    => LET x == log[i].args[1]
           name == FnOf(log[i].fn).Name
           said(text) == log[i].printed = << <<text>> >>
           silent == log[i].printed = <<>>
       IN  IF x.t \in {"ARRAY", "HASH", "CLOSURE", "USER_OBJ", "TUPLE"}
             THEN /\ log[i].out = "rterr"
                  /\ log[i].err.msg
                       = <<"condition must be boolean, got", x.t>>
                  /\ silent
             ELSE /\ x.t \in {"BOOLEAN", "NULL", "INTEGER", "FLOAT", "STRING"}
                  /\ log[i].out = "value"
                  /\ CASE name = "cond" ->
                            IF x \in Falsy THEN said("else") ELSE said("then")
                       [] name = "loop" ->
                            IF x \in Falsy
                              THEN silent /\ log[i].val = Integer(0)
                              ELSE said("body") /\ log[i].val = Integer(1)
                       [] name = "and" ->
                            IF x \in Falsy
                              THEN silent /\ log[i].val = x
                              ELSE said("right") /\ log[i].val = Null
                       [] name = "or" ->
                            IF x \in Falsy
                              THEN said("right") /\ log[i].val = Null
                              ELSE silent /\ log[i].val = x

\* an array as the condition of an if has raised the error
C12_Witness ==
  \E i \in 1..Len(log) :
    /\ prog = 9
    /\ log[i].kind = "Invoke"
    /\ FnOf(log[i].fn).Name = "cond"
    /\ log[i].args = <<Array(<<>>)>>
    /\ log[i].out = "rterr"

(***************************************************************************)
(* C13: for two primitives of the same kind == is true exactly when their  *)
(* values are equal and != is its negation, whichever object instances     *)
(* carry the values.                                                       *)
(***************************************************************************)
\* the value a primitive carries, without the instance that carries it
ValueOf(o) == <<o.t, o.v, o.s>>

C13_ValueEquality ==
  \A i \in 1..Len(log) :
    ( /\ prog = 10
      /\ log[i].kind = "Invoke"
      /\ Ran(log[i]) )
    => LET a == log[i].args[1]
           b == IF log[i].g = 2 THEN True ELSE log[i].args[2]
           same == ValueOf(a) = ValueOf(b)
       IN  /\ log[i].out = "value"
           /\ log[i].val = IF (log[i].g = 1) # same THEN True ELSE False

(***************************************************************************)
(* C14 as stated: Destructure n applied to a value that is not a tuple     *)
(* raises the runtime error "cannot destructure non-tuple" for every       *)
(* operand n, and no target variable is assigned.                          *)
(***************************************************************************)
\* the operand n of the Destructure each function applies to its argument
OperandOf(name) ==
  CASE name = "none" -> 0 [] name = "one" -> 1 [] name = "two" -> 2
    [] name = "three" -> 3

\* the completed calls that applied Destructure to a non-tuple argument
ScalarDestructures ==
  {i \in 1..Len(log) :
     /\ prog = 11
     /\ log[i].kind = "Invoke"
     /\ Ran(log[i])
     /\ log[i].g \in {2, 3, 5, 6}
     /\ log[i].args[1].t # "TUPLE"}

\* the call ended with the error and left the slots of its locals (the
\* argument and the targets) as they were when it started
RefusedScalar(e, n) ==
  /\ e.out = "rterr"
  /\ e.err.msg = <<"cannot destructure non-tuple into", n, "values">>
  /\ \A k \in 1..FnOf(e.fn).NumLocals : e.low[1 + k] = e.lowIn[1 + k]

AfterDecl(t) ==
  /\ prog = 11
  /\ pc[t] = "running"
  /\ call[t].kind = "Invoke"
  /\ call[t].g \in {2, 3, 4}
  /\ framesIndex = 1
  /\ currentFrame(VmState).ip = Size(DeclOf(FnOf(call[t].fn).Name)) - 1

C15_DestructureBinds ==
  \A t \in Threads :
    AfterDecl(t) =>
      LET fn == FnOf(call[t].fn)
          n == IF fn.Name = "three" THEN 3 ELSE 2
          first == IF fn.Name = "pair" THEN 2 ELSE 1
          tuple == IF fn.Name = "pair" THEN call[t].args
                   ELSE call[t].args[1].elems
      IN  /\ sp = 1 + fn.NumLocals
          /\ \A i \in 1..n : At(stack, 1 + first + i - 1) = tuple[i]

\* two names were bound from a tuple of three elements
C15_Witness ==
  \E t \in Threads :
    /\ AfterDecl(t)
    /\ call[t].g = 2
    /\ Len(call[t].args[1].elems) = 3
    /\ At(stack, 2) = Integer(1)
    /\ At(stack, 3) = Integer(2)

(***************************************************************************)
(* C16: when a builtin returns a Panic or a Critical the Run/Invoke stops  *)
(* with a runtime error carrying the message of the sentinel; the sentinel *)
(* is never pushed as a value and no instruction after the call executes;  *)
(* Panic and Critical are handled alike.                                   *)
(***************************************************************************)
\* the message of the sentinel the call of function g with args runs into,
\* "" when the builtin returns a value
SentinelOf(g, args) ==
  CASE g \in {0, 3} -> IF args[1] = Str("oops") THEN "oops" ELSE "5"
    [] g = 1 -> "wrong number of arguments. got=0, want=1"
    [] g = 2 -> IF args[1].t = "STRING" THEN ""
                ELSE "argument to 'len' not supported, got INTEGER"

C16_SentinelStopsCall ==
  prog = 12 =>
    /\ \A k \in 1..Len(stack) : stack[k].t \notin {"PANIC", "CRITICAL"}
    /\ lastPopped.t \notin {"PANIC", "CRITICAL"}
    /\ \A i \in 1..Len(log) :
         (log[i].kind = "Invoke" /\ Ran(log[i])) =>
           IF SentinelOf(log[i].g, log[i].args) = ""
             THEN /\ log[i].out = "value"
                  /\ log[i].printed = << <<"before">>, <<"after">> >>
             ELSE /\ log[i].out = "rterr"
                  /\ log[i].err.msg = <<SentinelOf(log[i].g, log[i].args)>>
                  /\ log[i].printed = << <<"before">> >>
                  /\ log[i].val = Nil

\* a call has been stopped by a Panic and another one by a Critical
C16_Witness ==
  /\ prog = 12
  /\ \E i, j \in 1..Len(log) :
       /\ log[i].kind = "Invoke" /\ log[i].g = 3 /\ log[i].out = "rterr"
       /\ log[j].kind = "Invoke" /\ log[j].g = 2 /\ log[j].out = "rterr"

(***************************************************************************)
(* C17: a forward reference between top-level functions compiles and       *)
(* works: with func A() { return B() } before func B() { return 1 } the    *)
(* compiler returns no error and A() is 1.                                 *)
(***************************************************************************)
C17_ForwardReference ==
  prog = 13 =>
    /\ ForwardCompiled.err = ""
    /\ (Len(log) = 1 /\ log[1].kind = "Run")
         => log[1].out = "value" /\ lastPopped = Integer(1)
    /\ \A i \in 1..Len(log) :
         (log[i].kind = "Invoke" /\ log[i].g = 0)
           => log[i].out = "value" /\ log[i].val = Integer(1)

\* A has been invoked and has returned
C17_Witness ==
  /\ prog = 13
  /\ \E i \in 1..Len(log) :
       /\ log[i].kind = "Invoke"
       /\ log[i].g = 0
       /\ log[i].out = "value"

(***************************************************************************)
(* C18: a closure holds the values its free variables had when it was      *)
(* created: an assignment the enclosing function makes to its local        *)
(* afterwards is not seen inside the closure (outer returns x although a   *)
(* is x + 1 by then, and the closure that make returned still yields 5),   *)
(* and running a closure leaves the enclosing local as it was (shadow      *)
(* returns x); a closure that assigns to a captured name does not compile. *)
(***************************************************************************)
C18_CaptureByValue ==
  prog = 14 =>
    /\ ClosureCompiled.err = ""
    /\ MutatingCompiled.err = "assignment to FREE not supported"
    /\ \A i \in 1..Len(log) :
         (log[i].kind = "Invoke" /\ log[i].out = "value") =>
           LET e == log[i]
           IN  /\ e.g = 0 => /\ e.val = e.args[1]
                             /\ e.low[3] = Integer(e.args[1].v + 1)
                             /\ e.low[4].elems = e.args
               /\ e.g = 1 => /\ e.val = e.args[1]
                             /\ e.low[3] = e.args[1]
                             /\ e.low[5] = Integer(100)
               /\ e.g = 3 => e.val = Integer(5)

\* outer has been invoked: its local a was assigned after the capture
C18_Witness ==
  /\ prog = 14
  /\ \E i \in 1..Len(log) :
       /\ log[i].kind = "Invoke" /\ log[i].g = 0 /\ log[i].out = "value"
       /\ log[i].low[3] # log[i].val

\* the closure make returned has been invoked by the host
C18_WitnessEscaped ==
  /\ prog = 14
  /\ \E i \in 1..Len(log) :
       log[i].kind = "Invoke" /\ log[i].g = 3 /\ log[i].out = "value"

\* the closure that declares its own a has run inside shadow
C18_WitnessShadow ==
  /\ prog = 14
  /\ \E i \in 1..Len(log) :
       /\ log[i].kind = "Invoke" /\ log[i].g = 1 /\ log[i].out = "value"
       /\ log[i].low[5] = Integer(100)

(***************************************************************************)
(* C19: the host's accesses to the globals (SetGlobal/GetGlobal), to the   *)
(* keyed scratch store (Get/Set) and to the print prefix (SetPrintPrefix/  *)
(* PrintPrefix) are mutually exclusive with an executing Run/Invoke on the *)
(* same VM: no accessor call is made while a thread is inside run().       *)
(***************************************************************************)
C19_HostAccessExclusive ==
  \A i \in 1..Len(access) : access[i].during = {}

\* the part of C19 that the lock of Run/Invoke does give: the globals
C19_GlobalsExclusive ==
  \A i \in 1..Len(access) :
    access[i].op \in {"GetGlobal", "SetGlobal"} => access[i].during = {}

\* the globals were accessed by one thread after another thread's call
C19_GlobalsWitness ==
  \E i \in 1..Len(access) :
    /\ access[i].op = "SetGlobal"
    /\ \E j \in 1..Len(log) : log[j].t # access[i].t

C21_DivisionYieldsFloat ==
  prog = 16 =>
    \A i \in 1..Len(log) :
      (log[i].kind = "Invoke" /\ log[i].args[2].v # 0) =>
        /\ log[i].out = "value"
        /\ log[i].val.t = (IF ArithNames[log[i].g + 1] = "div"
                             THEN "FLOAT" ELSE "INTEGER")

\* the part of C21 the code keeps: the five operators on two integers
\* return the integer Go computes, `/` truncating toward zero
C21_IntegerArithmetic ==
  prog = 16 =>
    \A i \in 1..Len(log) :
      log[i].kind = "Invoke" =>
        LET a == log[i].args[1].v
            b == log[i].args[2].v
            name == ArithNames[log[i].g + 1]
        IN  /\ log[i].out = "value"
            /\ log[i].val =
                 Integer(CASE name = "add" -> a + b
                           [] name = "sub" -> a - b
                           [] name = "mul" -> a * b
                           [] name = "div" -> GoDiv(a, b)
                           [] name = "mod" -> GoMod(a, b))

C21_IntegerWitness ==
  /\ prog = 16
  /\ \E i \in 1..Len(log) :
       /\ log[i].kind = "Invoke"
       /\ log[i].g = 3
       /\ log[i].args = <<Integer(-7), Integer(2)>>
       /\ log[i].val = Integer(-3)

(***************************************************************************)
(* C22: compiling and running the same side-effect-free expression twice   *)
(* yields the same result: any two Invokes of functions of ProgMap whose   *)
(* bodies return the same map literal (the same function, or two functions *)
(* written alike and compiled separately) return hashes with the same      *)
(* pairs.                                                                  *)
(***************************************************************************)
PairsOf(h) == {h.elems[k] : k \in 1..Len(h.elems)}

C22_MapLiteralDeterministic ==
  prog = 17 =>
    \A i, j \in 1..Len(log) :
      ( /\ log[i].kind = "Invoke"
        /\ log[j].kind = "Invoke"
        /\ MapSources[log[i].g + 1] = MapSources[log[j].g + 1] ) =>
        /\ log[i].out = "value"
        /\ log[i].val.t = "HASH"
        /\ PairsOf(log[i].val) = PairsOf(log[j].val)

\* the part of C22 the code keeps: a literal whose keys are all different
\* produces the hash of the pairs written, whatever the order of the build
C22_DistinctKeys ==
  prog = 17 =>
    \A i \in 1..Len(log) :
      (log[i].kind = "Invoke" /\ MapNames[log[i].g + 1] \notin {"dupA", "dupB"})
        => /\ log[i].out = "value"
           /\ PairsOf(log[i].val) =
                {[Key |-> Integer(p[1]), Value |-> Integer(p[2])] :
                   p \in {MapSources[log[i].g + 1][k] :
                            k \in 1..Len(MapSources[log[i].g + 1])}}

C22_DistinctWitness ==
  /\ prog = 17
  /\ \E i, j \in 1..Len(log) :
       /\ log[i].kind = "Invoke" /\ log[i].g = 2
       /\ log[j].kind = "Invoke" /\ log[j].g = 3
       /\ log[i].val.elems # log[j].val.elems
       /\ PairsOf(log[i].val) = PairsOf(log[j].val)

(***************************************************************************)
(* C23: at every step of Run/Invoke 0 <= sp <= 2048, at most 1024 frames   *)
(* are active, and no access of the value stack is out of range: no call   *)
(* ends in the Go panic of an index outside vm.stack.                      *)
(***************************************************************************)
StackPanic(e) ==
  e.out = "panic" /\ e.err.msg = <<"stack: index out of range">>

\* a call that begins with no frame left over by an earlier call: an Invoke
\* (it rebuilds the bottom frame) or the first call on the VM
Fresh(c, i) == c.kind = "Invoke" \/ i = 1

C23_StackInBounds ==
  /\ \A t \in Threads :
       (pc[t] = "running" /\ Fresh(call[t], ncalls)) =>
         /\ sp >= 0
         /\ sp <= StackSize
         /\ framesIndex <= MaxFrames
  /\ \A i \in 1..Len(log) : Fresh(log[i], i) => ~StackPanic(log[i])

\* the part of C23 the code keeps: a push is never made above the stack
\* (every slot written lies in [0, 2048)) and the frames stay within 1024
C23_WritesInBounds ==
  /\ Len(stack) <= StackSize
  /\ framesIndex <= MaxFrames

\* what the call at the top of the stack leads to: the callee's frame begins
\* at slot 2048 and its first read of a local is out of range
C23_EdgePanics ==
  /\ prog = 18
  /\ \E i \in 1..Len(log) : log[i].kind = "Invoke" /\ StackPanic(log[i])

(***************************************************************************)
(* C24: after any sequence of completed Run and Invoke calls a further     *)
(* call returns normally: while a thread is inside run() at least one      *)
(* frame is active, and no call ends in the Go panic of vm.frames indexed  *)
(* below 0.                                                                *)
(***************************************************************************)
FramesPanic(e) ==
  e.out = "panic" /\ e.err.msg = <<"frames: index out of range">>

C24_FrameActiveInRun ==
  /\ \A t \in Threads : pc[t] = "running" => framesIndex >= 1
  /\ \A i \in 1..Len(log) : ~FramesPanic(log[i])

\* the part of C24 the code keeps: an Invoke rebuilds the bottom frame, so
\* whatever the earlier calls left, no Invoke reads vm.frames below 0
C24_InvokeHasFrame ==
  /\ \A t \in Threads :
       (pc[t] = "running" /\ call[t].kind = "Invoke") => framesIndex >= 1
  /\ \A i \in 1..Len(log) : log[i].kind = "Invoke" => ~FramesPanic(log[i])

\* a Run that follows an Invoke that returned a value ends in the panic
C24_RunAfterInvokePanics ==
  \E i \in 2..Len(log) :
    /\ log[i].kind = "Run"
    /\ FramesPanic(log[i])
    /\ log[i - 1].kind = "Invoke"
    /\ log[i - 1].out = "value"

(***************************************************************************)
(* C25: an `if` leaves exactly one value on the stack on every path: when  *)
(* a function of ProgIf, whose body opens with the `if`, has just left the *)
(* `if` (the next instruction is the one after it), sp is one more than    *)
(* when the function was entered, whichever branch ran and whatever its    *)
(* last statement is.                                                      *)
(***************************************************************************)
\* the thread is inside the body of function name of ProgIf, right after
\* its `if` (whose size does not depend on the constants' indexes)
AfterIf(t, name) ==
  /\ pc[t] = "running"
  /\ call[t].kind = "Invoke"
  /\ FnOf(call[t].fn).Name = name
  /\ framesIndex = 1
  /\ frames[1].ip = Size(IfOf(call[t].g + 1, 0)) - 1

\* sp when the function of the running Invoke was entered
EntrySp == frames[1].basePointer + FnOf(frames[1].cl).NumLocals

C25_IfLeavesOneValue ==
  prog = 19 =>
    \A t \in Threads : \A k \in 1..Len(IfNames) :
      AfterIf(t, IfNames[k]) => sp = EntrySp + 1

\* the part of C25 the code keeps: the branch that ran ends in an expression
\* or an assignment, or is the absent alternative
C25_ExpressionBranch ==
  prog = 19 =>
    \A t \in Threads : \A k \in 1..Len(IfNames) :
      ( /\ AfterIf(t, IfNames[k])
        /\ \/ IfNames[k] \in {"expr", "noelse", "assign"}
           \/ IfNames[k] \in {"decl", "loop", "empty"}
                /\ call[t].args[1] = False
           \/ IfNames[k] = "elsedecl" /\ call[t].args[1] = True )
        => sp = EntrySp + 1

C25_ExpressionWitness ==
  /\ prog = 19
  /\ \E t \in Threads :
       /\ AfterIf(t, "noelse")
       /\ call[t].args[1] = False
       /\ sp = EntrySp + 1
       /\ At(stack, sp - 1) = Null

\* a branch ending in a declaration, a loop or nothing leaves no value
C25_NoValueLeft ==
  /\ prog = 19
  /\ \E t \in Threads :
       /\ AfterIf(t, "decl")
       /\ call[t].args[1] = True
       /\ sp = EntrySp

(***************************************************************************)
(* C26: in the host loop that keeps calling Invoke with one token, once    *)
(* the token is cancelled some Invoke returns the cancellation error,      *)
(* whatever the number of instructions the invoked function executes.      *)
(* Under LoopSpec the loop ends at the first error, so the error, once     *)
(* returned, stays the last completed call.                                *)
(***************************************************************************)
CancelReturned == LastOut = "cancel"

C26_SomeInvokeCancelled == cancelled ~> CancelReturned

\* the part of C26 the code keeps: the functions of ProgLoops fetch at
\* least CheckInterval instructions in every call
C26_LongCallsCancelled == (cancelled /\ prog = 4) ~> CancelReturned

\* an Invoke of onTick whose every instruction was fetched after the token
\* was cancelled has returned a value, and the loop is in its next Invoke
C26_InvokeAfterCancelReturns ==
  /\ prog = 20
  /\ cancelled
  /\ pc[1] = "running"
  /\ since[1] = 0
  /\ log # <<>>
  /\ log[1].kind = "Invoke"
  /\ log[1].ctx = "tok"
  /\ log[1].out = "value"
  /\ log[1].val = Integer(17)
  /\ log[1].late = 3

\* a call of ProgLoops made in the loop has returned the cancellation error
C26_LongCallWitness ==
  /\ prog = 4
  /\ cancelled
  /\ log # <<>>
  /\ log[1].kind = "Invoke"
  /\ log[1].out = "cancel"
  /\ log[1].late >= CheckInterval - 1

(***************************************************************************)
(* C27: a builtin that executes inside Run/Invoke and calls GetGlobal or   *)
(* SetGlobal on the same VM completes: the call returns instead of         *)
(* blocking forever on the lock the running Run/Invoke holds.  A thread at *)
(* the vm.mu.Lock() of an accessor goes on only when the mutex is free, so *)
(* the call returns only if the mutex is not held by the thread itself,    *)
(* whose Run/Invoke releases it when it returns.                           *)
(***************************************************************************)
C27_BuiltinAccessorReturns ==
  \A t \in Threads : pc[t] = "locking" => mu # t

\* what the code does instead: the thread stays at the Lock() and keeps the
\* mutex in every step of every thread
C27_BlockedForever ==
  [][\A t \in Threads :
       (pc[t] = "locking" /\ mu = t) => (pc'[t] = "locking" /\ mu' = t)]_vars

\* the builtin called by a function the host invoked is at the Lock() of
\* GetGlobal while its Invoke holds the mutex
C27_InvokeBlocked ==
  /\ prog = 21
  /\ \E t \in Threads :
       /\ InBuiltin(t, "GetGlobal")
       /\ call[t].kind = "Invoke"
       /\ mu = t

\* the builtin called by the script's top level is at the Lock() of
\* SetGlobal while its Run holds the mutex
C27_RunBlocked ==
  /\ prog = 21
  /\ \E t \in Threads :
       /\ InBuiltin(t, "SetGlobal")
       /\ call[t].kind = "Run"
       /\ mu = t

(***************************************************************************)
(* C28: for every value v on which truthiness is defined (booleans by      *)
(* value, null, integers, floats, strings), !v is the boolean negation of  *)
(* v's truthiness: !v is true exactly when a condition on v takes the      *)
(* false branch, whichever object instance carries v.  In ProgBang not(v)  *)
(* returns !v and cond(v) prints the branch `if (v)` takes.                *)
(***************************************************************************)
\* the completed Invokes of function name of ProgBang
BangCalls(name) ==
  {i \in 1..Len(log) :
     /\ log[i].kind = "Invoke"
     /\ log[i].fn.t = "CLOSURE"
     /\ FnOf(log[i].fn).Name = name}

TookElse(e) == e.printed = << <<"else">> >>

C28_BangNegatesTruthiness ==
  prog = 22 =>
    \A i \in BangCalls("not") : \A j \in BangCalls("cond") :
      log[i].args = log[j].args =>
        /\ log[i].out = "value" /\ log[j].out = "value"
        /\ log[i].val \in {True, False}
        /\ log[i].val = True <=> TookElse(log[j])

\* the part of C28 the code keeps: v is one of the VM's own true, false
\* and null objects, or a truthy value
C28_BangOnSingletons ==
  prog = 22 =>
    \A i \in BangCalls("not") : \A j \in BangCalls("cond") :
      ( /\ log[i].args = log[j].args
        /\ \/ log[i].args[1] \in {True, False, Null}
           \/ isTruthy(log[i].args[1]) )
        => /\ log[i].out = "value" /\ log[j].out = "value"
           /\ log[i].val \in {True, False}
           /\ log[i].val = True <=> TookElse(log[j])

C28_SingletonWitness ==
  /\ prog = 22
  /\ \E i \in BangCalls("not") : \E j \in BangCalls("cond") :
       /\ log[i].args = <<False>>
       /\ log[j].args = <<False>>
       /\ log[i].val = True
       /\ TookElse(log[j])

\* !0 is false although `if (0)` takes the false branch
C28_ZeroWitness ==
  /\ prog = 22
  /\ \E i \in BangCalls("not") : \E j \in BangCalls("cond") :
       /\ log[i].args = <<Integer(0)>>
       /\ log[j].args = <<Integer(0)>>
       /\ log[i].val = False
       /\ TookElse(log[j])

\* ! of a false the host made is false although a condition on it takes
\* the false branch
C28_HostFalseWitness ==
  /\ prog = 22
  /\ \E i \in BangCalls("not") : \E j \in BangCalls("cond") :
       /\ log[i].args = <<HostBoolean(FALSE, 1)>>
       /\ log[j].args = <<HostBoolean(FALSE, 1)>>
       /\ log[i].val = False
       /\ TookElse(log[j])

(***************************************************************************)
(* C29: no global or local variable slot ever holds a tuple: whenever      *)
(* StoreLocal or StoreGlobal stores a tuple value, of any length, the slot *)
(* receives what the tuple is in scalar context (its first element) and    *)
(* the store completes without error, so that                              *)
(* `var a = pair(10, 20); a + 5` is 15.  In ProgTuple the declared local   *)
(* of first and of nested is slot 1 of the stack and that of keep slot 2;  *)
(* a completed call's entry holds the low slots it left.                   *)
(***************************************************************************)
\* Tuple.first: what a tuple is in scalar context
TupleScalar(o) ==
  IF o.t # "TUPLE" THEN o
  ELSE IF Len(o.elems) > 0 THEN o.elems[1]
  ELSE Null

\* the completed Invokes of function name of ProgTuple
TupleCalls(name) ==
  {i \in 1..Len(log) :
     /\ prog = 23
     /\ log[i].kind = "Invoke"
     /\ log[i].fn.t = "CLOSURE"
     /\ FnOf(log[i].fn).Name = name}

NoTupleIn(slots) == \A k \in 1..Len(slots) : slots[k].t # "TUPLE"

C29_NoSlotHoldsTuple ==
  /\ prog = 23 => NoTupleIn(globals)
  /\ \A i \in 1..Len(log) :
       (prog = 23 /\ i = 1 /\ log[i].kind = "Run") =>
         /\ log[i].out = "value"
         /\ log[i].glOut[1] = Integer(10)
  /\ \A i \in TupleCalls("first") \cup TupleCalls("nested") :
       /\ log[i].out = "value"
       /\ log[i].low[2].t = "INTEGER"
       /\ log[i].val = Integer(log[i].low[2].v + 5)
  /\ \A i \in TupleCalls("keep") :
       /\ log[i].out = "value"
       /\ log[i].low[3] = TupleScalar(log[i].args[1])
       /\ log[i].low[3].t # "TUPLE"
       /\ log[i].val = log[i].low[3]

\* the part of C29 the code keeps: the stored tuple has a first element
\* and that element is no tuple
FlatTuple(o) ==
  o.t = "TUPLE" => (o.elems # <<>> /\ o.elems[1].t # "TUPLE")

C29_FlatTupleStored ==
  /\ prog = 23 => NoTupleIn(globals)
  /\ \A i \in 1..Len(log) :
       (prog = 23 /\ i = 1 /\ log[i].kind = "Run") =>
         /\ log[i].out = "value"
         /\ log[i].glOut[1] = Integer(10)
  /\ \A i \in TupleCalls("first") :
       /\ log[i].out = "value"
       /\ log[i].low[2] = Integer(10)
       /\ log[i].val = Integer(15)
  /\ \A i \in TupleCalls("keep") :
       FlatTuple(log[i].args[1]) =>
         /\ log[i].out = "value"
         /\ log[i].low[3] = TupleScalar(log[i].args[1])
         /\ log[i].low[3].t # "TUPLE"
         /\ log[i].val = log[i].low[3]

C29_FlatWitness ==
  /\ \E i \in TupleCalls("first") : log[i].val = Integer(15)
  /\ \E i \in TupleCalls("keep") :
       /\ log[i].args[1] = Tuple(<<Integer(1), Integer(2)>>)
       /\ log[i].low[3] = Integer(1)
  /\ globals[1] = Integer(10)

\* the local of nested holds the tuple (10, 20) and `c + 5` is an error
C29_NestedWitness ==
  \E i \in TupleCalls("nested") :
    /\ log[i].low[2] = Tuple(<<Integer(10), Integer(20)>>)
    /\ log[i].out = "rterr"

\* storing the tuple without elements ends Invoke in a Go panic
C29_EmptyWitness ==
  \E i \in TupleCalls("keep") :
    /\ log[i].args[1] = Tuple(<<>>)
    /\ log[i].out = "panic"

(***************************************************************************)
(* C30: A && B and A || B each leave exactly one value on the stack on     *)
(* every path: B is evaluated only when A does not decide the result (A    *)
(* truthy for &&, A falsy for ||), and the value left is A's when the      *)
(* expression short-circuits and B's otherwise.  In ProgCond and(x) is     *)
(* `x && print("right")` and or(x) is `x || print("right")`: B prints a    *)
(* line and its value is null.                                             *)
(***************************************************************************)
\* the size of the code of `x <operator> print("right")`
ShortSize(operator) ==
  Size(InfixExpression(0, operator, Emit(OpGetLocal, <<0>>, 1),
         CallExpression(Emit(OpGetBuiltin, <<BuiltinPrint>>, 1),
                        <<Emit(OpConstant, <<0>>, 1)>>, 1), 1))

\* the thread is inside function name of ProgCond, whose body begins with
\* the expression, right after the expression
AfterShort(t, name, operator) ==
  /\ prog = 9
  /\ pc[t] = "running"
  /\ call[t].kind = "Invoke"
  /\ FnOf(call[t].fn).Name = name
  /\ framesIndex = 1
  /\ frames[1].ip = ShortSize(operator) - 1

\* the lines the call of thread t has printed
PrintedBy(t) == SubSeq(output, call[t].outIn + 1, Len(output))

\* the expression of thread t's call left one value, A's without B having
\* run when short is true and B's after B ran otherwise
LeftOne(t, short) ==
  /\ sp = EntrySp + 1
  /\ IF short
       THEN At(stack, sp - 1) = call[t].args[1] /\ PrintedBy(t) = <<>>
       ELSE At(stack, sp - 1) = Null /\ PrintedBy(t) = << <<"right">> >>

C30_ShortCircuitOneValue ==
  \A t \in Threads :
    /\ AfterShort(t, "and", "&&") => LeftOne(t, call[t].args[1] \in Falsy)
    /\ AfterShort(t, "or", "||") => LeftOne(t, call[t].args[1] \notin Falsy)

\* x && B has short-circuited on the string "" and x || B on the string "a"
C30_Witness ==
  \E t \in Threads :
    \/ /\ AfterShort(t, "and", "&&")
       /\ call[t].args[1] = Str("")
       /\ At(stack, sp - 1) = Str("")
    \/ /\ AfterShort(t, "or", "||")
       /\ call[t].args[1] = Str("a")
       /\ At(stack, sp - 1) = Str("a")

\* B has run: x && B for 3 has left B's value
C30_WitnessRight ==
  \E t \in Threads :
    /\ AfterShort(t, "and", "&&")
    /\ call[t].args[1] = Integer(3)
    /\ At(stack, sp - 1) = Null
    /\ PrintedBy(t) = << <<"right">> >>

=============================================================================
